---- MODULE Spec2Model ----
(***************************************************************************)
(* Model of the session/relay protocol of src/hooks/usePeerChat.ts.        *)
(*                                                                         *)
(* One process "h" calls createRoom and becomes the host; the guests call  *)
(* joinRoom.  Every process runs the same hook, so the hook's state        *)
(* (state.*, currentUser, the refs) is a function of the process.          *)
(*                                                                         *)
(* Modelling decisions:                                                    *)
(*  - every handler (React event, PeerJS callback, timer) is one atomic    *)
(*    action; functional setState updaters are applied in call order;      *)
(*  - a handler registered inside createRoom / joinRoom reads `state` and  *)
(*    `currentUser` of the render in which createRoom / joinRoom was       *)
(*    called (a JavaScript closure): those captured values are the         *)
(*    variables closureUsers, closureStatus and closureUser;               *)
(*  - messagesRef.current is state.messages as of the start of a handler   *)
(*    (the syncing effect, lines 58-60, runs after a render, never inside  *)
(*    a handler);                                                          *)
(*  - PeerJS is the environment: a DataConnection is ordered and reliable  *)
(*    while open, what is in flight is lost when it closes, and a 'close'  *)
(*    event is delivered to each side as an event of its own.              *)
(***************************************************************************)
EXTENDS Integers, Sequences, FiniteSets, TLC

\* ------------------------------------------------------------------ bounds
MaxMsgIds == 5      \* message ids (crypto.randomUUID) handed out in a run
MaxLag == 2         \* how far the clock of guest "g1" may be behind the others
MaxJoins == 2       \* joinRoom calls per guest
MaxDials == 4       \* attemptConnection calls per guest
MaxSends == 1       \* sendMessage calls in a run
MaxResends == 1     \* repeated deliveries of a Chat envelope to the host
MaxToggles == 2     \* toggleMuteUser calls in a run
MaxKicks == 1       \* kickUser calls in a run
MaxDrops == 1       \* losses of the signaling link / of a connection
MaxChunks == 3      \* HistoryChunk envelopes of one replay (merge harness)
MaxCopies == 2      \* deliveries of one HistoryChunk (merge harness)
MaxBotSends == 2    \* sendMessage calls in a run with the bot
MaxLive == 1        \* live Chat deliveries racing the replay (merge harness)
MaxInputs == 2      \* changes of the input field in a run
MaxFlips == 2       \* foreground/background transitions in a run

\* -------------------------------------------------------- program constants
CHUNK_SIZE == 20
MAX_RETRIES == 3

\* ------------------------------------------------------------- participants
Host == "h"
Guests == {"g1", "g2"}
Procs == {Host} \cup Guests
Conns == Guests \X (1..MaxDials)
ROOM == "R"

NoUser == [id |-> "null", isHost |-> FALSE, status |-> "online", isMuted |-> FALSE]
MkUser(uid, host) == [id |-> uid, isHost |-> host, status |-> "online", isMuted |-> FALSE]
aiUser == [id |-> "ai-bot", isHost |-> FALSE, status |-> "online", isMuted |-> FALSE]

\* Message bodies: what matters of a body is whether it addresses the bot.
Contents == {<<"plain", "">>, <<"@ai", "">>}
Mentions(content) == content[1] = "@ai"
\* What generateAIResponse resolves to: the text of the service, or the
\* apology of its catch block.
Reply == <<"reply", "">>
Apology == <<"apology", "">>
ResponseTexts == {Reply, Apology}
MkMsg(i, sender, content, ts, type) ==
    [id |-> i, senderId |-> sender, content |-> content, timestamp |-> ts, type |-> type]
\* The System messages `${name} joined the room.` and `${name} left the room.`
SysMsg(i, what, uid, ts) == MkMsg(i, "system", <<what, uid>>, ts, "SYSTEM")

Range(s) == {s[i] : i \in DOMAIN s}
Ids(s) == {s[i].id : i \in DOMAIN s}
Count(i, s) == Cardinality({k \in DOMAIN s : s[k].id = i})
NoDup(s) == \A i, j \in DOMAIN s : s[i].id = s[j].id => i = j


\* ------------------------------------------------------- pure operations

\* Array.prototype.sort((a, b) => a.timestamp - b.timestamp): a stable sort.
InsertByTs(m, s) ==
    LET k == Cardinality({i \in DOMAIN s : s[i].timestamp <= m.timestamp})
    IN  SubSeq(s, 1, k) \o <<m>> \o SubSeq(s, k + 1, Len(s))

RECURSIVE SortByTs(_)
SortByTs(s) ==
    IF s = <<>> THEN <<>>
    ELSE InsertByTs(s[Len(s)], SortByTs(SubSeq(s, 1, Len(s) - 1)))

\* A merge that replaces the log by the chunk.
MergeHistoryReplace(prev, history) ==
    SortByTs(history)

\* A merge that keeps every local message, also those the chunk holds.
MergeHistoryKeepAll(prev, history) ==
    SortByTs(history \o prev)

\* history_sync: the local messages that are not in the chunk are kept, the
\* chunk is put in front of them and the whole is sorted by timestamp.
MergeHistory(prev, history) ==
    LET historyIds == Ids(history)
        localMessages == SelectSeq(prev, LAMBDA m : m.id \notin historyIds)
    IN  SortByTs(history \o localMessages)

\* history_sync as a whole: the pair <<messageIdsRef, state.messages>> after
\* the chunk has been merged.
SyncHistory(ids, msgs, history) ==
    LET merged == MergeHistory(msgs, history)
    IN  <<ids \cup Ids(merged), merged>>

\* An addMessage that does not look at the id set.
AddMessageAlways(ids, msgs, msg) ==
    <<ids \cup {msg.id}, Append(msgs, msg)>>

\* addMessage: the pair <<messageIdsRef, state.messages>> after the call.
AddMessage(ids, msgs, msg) ==
    IF msg.id \in ids THEN <<ids, msgs>>
    ELSE <<ids \cup {msg.id}, Append(msgs, msg)>>

\* Slices that leave out the last message of the history.
HistoryChunksStale(h) ==
    [k \in 1..((Len(h) + CHUNK_SIZE - 2) \div CHUNK_SIZE) |->
        SubSeq(h, (k - 1) * CHUNK_SIZE + 1,
               IF k * CHUNK_SIZE < Len(h) - 1 THEN k * CHUNK_SIZE ELSE Len(h) - 1)]

\* A chunk count that leaves out a last chunk that is not full.
ChunkCountFloor(n) == n \div CHUNK_SIZE

\* The slices historyToSync.slice(i, i + CHUNK_SIZE), i = 0, CHUNK_SIZE, ...
ChunkCount(n) == (n + CHUNK_SIZE - 1) \div CHUNK_SIZE
HistoryChunks(h) ==
    [k \in 1..ChunkCount(Len(h)) |->
        SubSeq(h, (k - 1) * CHUNK_SIZE + 1,
               IF k * CHUNK_SIZE < Len(h) THEN k * CHUNK_SIZE ELSE Len(h))]

\* A lookup that never finds the id.
FindIndexNone(us, uid) == 0

\* prev.users.findIndex(u => u.id === id), 0 when there is none.
FindIndex(us, uid) ==
    IF \E i \in DOMAIN us : us[i].id = uid
    THEN CHOOSE i \in DOMAIN us : us[i].id = uid /\ \A j \in 1..(i - 1) : us[j].id # uid
    ELSE 0

\* users.find(u => u.id === id)?.isMuted, falsy when there is no such user.
IsMutedIn(us, uid) ==
    LET i == FindIndex(us, uid) IN i # 0 /\ us[i].isMuted

\* ------------------------------------------------------------------ state
VARIABLES
    status, error, roomId, users, messages,  \* state.* of each process
    currentUser, isInRoom,                   \* currentUser; App.tsx isInRoom
    messageIdsRef,                           \* messageIdsRef.current
    isAiThinking, aiCalls,                   \* host: flag, pending responder calls
    connectionsRef, connMapRef,              \* host: connections, peer -> user id
    closeListeners,                          \* host: listeners added at line 369
    historyTimers, kickTimers,               \* host: pending setTimeout callbacks
    closureUsers,                            \* state.users seen by handleHostData
    closureStatus, closureUser,              \* state.status / currentUser seen by
                                             \* the handlers made in joinRoom
    peer, heartbeat,                         \* signaling link of peerRef.current
    joins, dials, hostConnectionRef,
    retryCountRef, retryTimers,
    connectionTimeoutRef, dialTimers,
    conn, toHost, toGuest,                   \* DataConnections and their queues
    closeEvtH, closeEvtG,                    \* 'close' events not yet handled
    evicted,                                 \* history: g has received an Eviction
    chunkSent, liveSent,                     \* history: deliveries of the merge harness
    nextId,                                  \* next unused message id
    lag,                                     \* how far each clock is behind
    sends, resends, toggles, kicks, drops,   \* counters of the bounded inputs
    typingUsers,                             \* state.typingUsers of each process
    typingTimeoutRef, lastTypingSentRef,     \* ChatScreen.tsx refs of each process
    hidden,                                  \* document.hidden of each process
    typingSent,                              \* history: last typing signal sent
    inputs, flips                            \* counters of the bounded inputs

stateVars == <<status, error, roomId, users, messages, currentUser, isInRoom,
               messageIdsRef, isAiThinking, aiCalls>>
hostVars == <<connectionsRef, connMapRef, closeListeners, historyTimers,
              kickTimers, closureUsers>>
guestVars == <<closureStatus, closureUser, joins, dials, hostConnectionRef,
               retryCountRef, retryTimers, connectionTimeoutRef, dialTimers>>
netVars == <<peer, heartbeat, conn, toHost, toGuest, closeEvtH, closeEvtG>>
boundVars == <<nextId, lag, sends, resends, toggles, kicks, drops>>
histVars == <<evicted, chunkSent, liveSent>>
typingVars == <<typingUsers, typingTimeoutRef, lastTypingSentRef, hidden,
                typingSent, inputs, flips>>
vars == <<stateVars, hostVars, guestVars, netVars, boundVars, histVars, typingVars>>


\* Date.now() of process p.  Time advances with every message created; the
\* clocks of the processes need not agree.
Now(p) == nextId - lag[p]

\* ------------------------------------------------------- initial states
\* Nobody types (state.typingUsers of line 39, the refs of ChatScreen.tsx
\* lines 64-65) and every tab is in the foreground.
TypingStart ==
    /\ typingUsers = [p \in Procs |-> <<>>]
    /\ typingTimeoutRef = [p \in Procs |-> <<>>]
    /\ lastTypingSentRef = [p \in Procs |-> 0]
    /\ hidden = [p \in Procs |-> FALSE]
    /\ typingSent = [p \in Procs |-> "none"]
    /\ inputs = 0 /\ flips = 0

\* The hook as constructed (lines 33-55); the effect of lines 63-74 has
\* restored the stored profile of the processes of `profiles` that have one.
\* The clock of guest "g1" is behind by one of `lags`.
Start(profiles, lags) ==
    /\ status = [p \in Procs |-> "idle"]
    /\ error = [p \in Procs |-> "null"]
    /\ roomId = [p \in Procs |-> "null"]
    /\ users = [p \in Procs |-> <<>>]
    /\ messages = [p \in Procs |-> <<>>]
    /\ currentUser \in [Procs -> {NoUser} \cup {MkUser(p, FALSE) : p \in Procs}]
    /\ \A p \in Procs : currentUser[p] \in {NoUser, MkUser(p, FALSE)}
    /\ \A p \in Procs \ profiles : currentUser[p] = NoUser
    /\ isInRoom = [p \in Procs |-> FALSE]
    /\ messageIdsRef = [p \in Procs |-> {}]
    /\ isAiThinking = FALSE
    /\ aiCalls = 0
    /\ connectionsRef = <<>>
    /\ connMapRef = [g \in Guests |-> "none"]
    /\ closeListeners = [c \in Conns |-> <<>>]
    /\ historyTimers = {}
    /\ kickTimers = {}
    /\ closureUsers = <<>>
    /\ closureStatus = [g \in Guests |-> "idle"]
    /\ closureUser = [g \in Guests |-> NoUser]
    /\ peer = [p \in Procs |-> "none"]
    /\ heartbeat = [p \in Procs |-> FALSE]
    /\ joins = [g \in Guests |-> 0]
    /\ dials = [g \in Guests |-> 0]
    /\ hostConnectionRef = [g \in Guests |-> 0]
    /\ retryCountRef = [g \in Guests |-> 0]
    /\ retryTimers = [g \in Guests |-> <<>>]
    /\ connectionTimeoutRef = [g \in Guests |-> 0]
    /\ dialTimers = [g \in Guests |-> {}]
    /\ conn = [c \in Conns |-> "none"]
    /\ toHost = [c \in Conns |-> <<>>]
    /\ toGuest = [c \in Conns |-> <<>>]
    /\ closeEvtH = [c \in Conns |-> FALSE]
    /\ closeEvtG = [c \in Conns |-> FALSE]
    /\ evicted = [g \in Guests |-> FALSE]
    /\ chunkSent = <<>>
    /\ liveSent = 0
    /\ TypingStart
    /\ nextId = 1
    /\ lag \in [Procs -> lags]
    /\ \A p \in Procs \ {"g1"} : lag[p] = 0
    /\ sends = 0 /\ resends = 0 /\ toggles = 0 /\ kicks = 0 /\ drops = 0

\* No stored profile anywhere.
Init == Start({}, {0, MaxLag})

\* ------------------------------------------------------ shared helpers

\* A broadcast that leaves out the connection registered last.
BroadcastButLast(tg, conns, env) ==
    [c \in Conns |-> IF c \in Range(SubSeq(conns, 1, Len(conns) - 1)) /\ conn[c] = "open"
                     THEN Append(tg[c], env) ELSE tg[c]]

\* A broadcast that leaves out the connection registered first.
BroadcastButFirst(tg, conns, env) ==
    [c \in Conns |-> IF c \in Range(SubSeq(conns, 2, Len(conns))) /\ conn[c] = "open"
                     THEN Append(tg[c], env) ELSE tg[c]]

\* broadcast: conn.send(data) on every connection of connectionsRef that is open.
Broadcast(tg, conns, env) ==
    [c \in Conns |-> IF c \in Range(conns) /\ conn[c] = "open"
                     THEN Append(tg[c], env) ELSE tg[c]]

\* sendToHost: hostConnectionRef.current?.open && send.
SendToHost(th, g, env) ==
    LET n == hostConnectionRef[g] IN
    IF n # 0 /\ conn[<<g, n>>] = "open"
    THEN [th EXCEPT ![<<g, n>>] = Append(@, env)]
    ELSE th

\* The connections of guest g that peer.destroy() (line 294) disposes of.
DestroyedConns(g) == {c \in Conns : c[1] = g /\ conn[c] # "none"}

\* ------------------------------------------------------------ createRoom
CreateRoom ==
    /\ ~isInRoom[Host]
    /\ currentUser' = [currentUser EXCEPT ![Host] = MkUser(Host, TRUE)]
    /\ messageIdsRef' = [messageIdsRef EXCEPT ![Host] = {}]
    /\ messages' = [messages EXCEPT ![Host] = <<>>]
    /\ status' = [status EXCEPT ![Host] = "connecting"]
    /\ users' = [users EXCEPT ![Host] = <<MkUser(Host, TRUE), aiUser>>]
    /\ peer' = [peer EXCEPT ![Host] = "connecting"]
    /\ closureUsers' = users[Host]
    /\ UNCHANGED <<error, roomId, isInRoom, isAiThinking, aiCalls>>
    /\ UNCHANGED <<connectionsRef, connMapRef, closeListeners, historyTimers, kickTimers>>
    /\ UNCHANGED <<guestVars, heartbeat, conn, toHost, toGuest, closeEvtH, closeEvtG, boundVars>>
    /\ UNCHANGED <<histVars, typingVars>>

\* peer.on('open') of the host: lines 259-262.
HostPeerOpen ==
    /\ peer[Host] = "connecting"
    /\ peer' = [peer EXCEPT ![Host] = "open"]
    /\ roomId' = [roomId EXCEPT ![Host] = ROOM]
    /\ status' = [status EXCEPT ![Host] = "connected"]
    /\ isInRoom' = [isInRoom EXCEPT ![Host] = TRUE]
    /\ heartbeat' = [heartbeat EXCEPT ![Host] = TRUE]
    /\ UNCHANGED <<error, users, messages, currentUser, messageIdsRef, isAiThinking, aiCalls>>
    /\ UNCHANGED <<hostVars, guestVars, conn, toHost, toGuest, closeEvtH, closeEvtG, boundVars>>
    /\ UNCHANGED <<histVars, typingVars>>

\* The classes of Peer errors other than 'peer-unavailable' (err.type).
ErrorTypes == {"network", "server-error", "unavailable-id"}

\* A host whose registration failure is only logged.
HostPeerErrorLogged(type) ==
    /\ peer[Host] = "connecting"
    /\ ~heartbeat[Host]
    /\ peer' = [peer EXCEPT ![Host] = "failed"]
    /\ UNCHANGED <<stateVars, hostVars, guestVars>>
    /\ UNCHANGED <<heartbeat, conn, toHost, toGuest, closeEvtH, closeEvtG, boundVars>>
    /\ UNCHANGED <<histVars, typingVars>>

\* peer.on('error') of the host, lines 271-274, for a failure of the
\* registration with the signaling service: the Peer that has never been
\* open is given up by the library.
HostPeerError(type) ==
    /\ peer[Host] = "connecting"
    /\ ~heartbeat[Host]
    /\ peer' = [peer EXCEPT ![Host] = "failed"]
    /\ status' = [status EXCEPT ![Host] = "error"]
    /\ error' = [error EXCEPT ![Host] = "Host Error: " \o type]
    /\ UNCHANGED <<roomId, users, messages, currentUser, isInRoom, messageIdsRef>>
    /\ UNCHANGED <<isAiThinking, aiCalls, hostVars, guestVars>>
    /\ UNCHANGED <<heartbeat, conn, toHost, toGuest, closeEvtH, closeEvtG, boundVars>>
    /\ UNCHANGED <<histVars, typingVars>>

\* peer.on('connection'): lines 264-269.
HostOnConnection(c) ==
    /\ conn[c] = "dialing"
    /\ peer[Host] = "open"
    /\ conn' = [conn EXCEPT ![c] = "pending"]
    /\ connectionsRef' = Append(connectionsRef, c)
    /\ UNCHANGED <<stateVars, connMapRef, closeListeners, historyTimers, kickTimers, closureUsers>>
    /\ UNCHANGED <<guestVars, peer, heartbeat, toHost, toGuest, closeEvtH, closeEvtG, boundVars>>
    /\ UNCHANGED <<histVars, typingVars>>


\* -------------------------------------------------------------- joinRoom
\* joinRoom, lines 277-296 and 345-349: a new Peer replaces the old one, the
\* dial timeout is started without clearing an earlier one, and the
\* handlers made by this call close over state.status and currentUser.
JoinRoom(g) ==
    /\ ~isInRoom[g]
    /\ joins[g] < MaxJoins
    /\ LET userId == IF currentUser[g] # NoUser THEN currentUser[g].id ELSE g
           gen == joins[g] + 1
       IN  /\ currentUser' = [currentUser EXCEPT ![g] = MkUser(userId, FALSE)]
           /\ joins' = [joins EXCEPT ![g] = gen]
           /\ connectionTimeoutRef' = [connectionTimeoutRef EXCEPT ![g] = gen]
           /\ dialTimers' = [dialTimers EXCEPT
                                ![g] = @ \cup {[gen |-> gen, seen |-> status[g]]}]
    /\ messageIdsRef' = [messageIdsRef EXCEPT ![g] = {}]
    /\ messages' = [messages EXCEPT ![g] = <<>>]
    /\ status' = [status EXCEPT ![g] = "connecting"]
    /\ error' = [error EXCEPT ![g] = "null"]
    /\ peer' = [peer EXCEPT ![g] = "connecting"]
    /\ conn' = [c \in Conns |-> IF c \in DestroyedConns(g) THEN "closed" ELSE conn[c]]
    /\ closureStatus' = [closureStatus EXCEPT ![g] = status[g]]
    /\ closureUser' = [closureUser EXCEPT ![g] = currentUser[g]]
    /\ UNCHANGED <<roomId, users, isInRoom, isAiThinking, aiCalls, hostVars>>
    /\ UNCHANGED <<dials, hostConnectionRef, retryCountRef, retryTimers>>
    /\ UNCHANGED <<heartbeat, toHost, toGuest, closeEvtH, closeEvtG, boundVars>>
    /\ UNCHANGED <<histVars, typingVars>>

\* attemptConnection, lines 299-305: peer.connect and hostConnectionRef.
AttemptConnection(g) ==
    /\ dials[g] < MaxDials
    /\ dials' = [dials EXCEPT ![g] = @ + 1]
    /\ hostConnectionRef' = [hostConnectionRef EXCEPT ![g] = dials[g] + 1]
    /\ conn' = [conn EXCEPT ![<<g, dials[g] + 1>>] = "dialing"]

\* peer.on('open', attemptConnection), line 326: fires whenever the signaling
\* link is (re-)established.
GuestPeerOpen(g) ==
    /\ peer[g] = "connecting"
    /\ peer' = [peer EXCEPT ![g] = "open"]
    /\ AttemptConnection(g)
    /\ UNCHANGED <<stateVars, hostVars, closureStatus, closureUser, joins>>
    /\ UNCHANGED <<retryCountRef, retryTimers, connectionTimeoutRef, dialTimers>>
    /\ UNCHANGED <<heartbeat, toHost, toGuest, closeEvtH, closeEvtG, boundVars>>
    /\ UNCHANGED <<histVars, typingVars>>

\* conn.on('open'), lines 307-313.
ConnOpen(c) ==
    LET g == c[1] IN
    /\ conn[c] = "pending"
    /\ conn' = [conn EXCEPT ![c] = "open"]
    /\ dialTimers' = [dialTimers EXCEPT
                         ![g] = {t \in @ : t.gen # connectionTimeoutRef[g]}]
    /\ retryCountRef' = [retryCountRef EXCEPT ![g] = 0]
    /\ roomId' = [roomId EXCEPT ![g] = ROOM]
    /\ status' = [status EXCEPT ![g] = "connected"]
    /\ isInRoom' = [isInRoom EXCEPT ![g] = TRUE]
    /\ toHost' = [toHost EXCEPT ![c] = Append(@, [type |-> "handshake",
                                      user |-> MkUser(currentUser[g].id, FALSE)])]
    /\ heartbeat' = [heartbeat EXCEPT ![g] = TRUE]
    /\ UNCHANGED <<error, users, messages, currentUser, messageIdsRef, isAiThinking, aiCalls>>
    /\ UNCHANGED <<hostVars, closureStatus, closureUser, joins, dials, hostConnectionRef>>
    /\ UNCHANGED <<retryTimers, connectionTimeoutRef, peer, toGuest, closeEvtH, closeEvtG>>
    /\ UNCHANGED boundVars
    /\ UNCHANGED <<histVars, typingVars>>


\* ------------------------------------------------------- host handlers

\* The host's mutable data threaded through a handler.
HostData == [users |-> users[Host], conns |-> connectionsRef, tg |-> toGuest,
             ids |-> messageIdsRef[Host], msgs |-> messages[Host], nid |-> nextId]

\* A handleUserDisconnect that announces the departure twice.
HandleUserDisconnectTwice(hd, userId, ts) ==
    LET newUsers == SelectSeq(hd.users, LAMBDA u : u.id # userId)
        remaining == SelectSeq(hd.conns, LAMBDA c : conn[c] = "open")
        tg1 == Broadcast(hd.tg, remaining, [type |-> "user_list_update", users |-> newUsers])
        sysMsg == SysMsg(hd.nid, "left", userId, ts)
        again == SysMsg(hd.nid + 1, "left", userId, ts)
        tg2 == Broadcast(tg1, remaining, [type |-> "message", msg |-> sysMsg])
    IN  [users |-> newUsers, conns |-> remaining,
         tg |-> Broadcast(tg2, remaining, [type |-> "message", msg |-> again]),
         ids |-> hd.ids \cup {sysMsg.id, again.id},
         msgs |-> hd.msgs \o <<sysMsg, again>>, nid |-> hd.nid + 2]

\* handleUserDisconnect(userId, userName), lines 452-477.
HandleUserDisconnect(hd, userId, ts) ==
    LET newUsers == SelectSeq(hd.users, LAMBDA u : u.id # userId)
        remaining == SelectSeq(hd.conns, LAMBDA c : conn[c] = "open")
        tg1 == Broadcast(hd.tg, remaining, [type |-> "user_list_update", users |-> newUsers])
        sysMsg == SysMsg(hd.nid, "left", userId, ts)
        added == AddMessage(hd.ids, hd.msgs, sysMsg)
    IN  [users |-> newUsers, conns |-> remaining,
         tg |-> Broadcast(tg1, remaining, [type |-> "message", msg |-> sysMsg]),
         ids |-> added[1], msgs |-> added[2], nid |-> hd.nid + 1]

\* The listeners of one connection, called in the order they were added.
RECURSIVE RunCloseListeners(_, _, _)
RunCloseListeners(hd, ls, ts) ==
    IF ls = <<>> THEN hd
    ELSE RunCloseListeners(HandleUserDisconnect(hd, Head(ls), ts), Tail(ls), ts)

SetHostData(hd) ==
    /\ users' = [users EXCEPT ![Host] = hd.users]
    /\ connectionsRef' = hd.conns
    /\ toGuest' = hd.tg
    /\ messageIdsRef' = [messageIdsRef EXCEPT ![Host] = hd.ids]
    /\ messages' = [messages EXCEPT ![Host] = hd.msgs]
    /\ nextId' = hd.nid

\* The 'close' event of a connection at the host: the listeners of line 369.
HostConnClose(c) ==
    /\ closeEvtH[c]
    /\ nextId + Len(closeListeners[c]) - 1 <= MaxMsgIds
    /\ closeEvtH' = [closeEvtH EXCEPT ![c] = FALSE]
    /\ SetHostData(RunCloseListeners(HostData, closeListeners[c], Now(Host)))
    /\ UNCHANGED <<status, error, roomId, currentUser, isInRoom, isAiThinking, aiCalls>>
    /\ UNCHANGED <<connMapRef, closeListeners, historyTimers, kickTimers, closureUsers>>
    /\ UNCHANGED <<guestVars, peer, heartbeat, conn, toHost, closeEvtG>>
    /\ UNCHANGED <<lag, sends, resends, toggles, kicks, drops>>
    /\ UNCHANGED <<histVars, typingVars>>

\* handleHostData, data.type === 'handshake': lines 365-412.
HostOnHandshake(c) ==
    /\ conn[c] = "open"
    /\ toHost[c] # <<>>
    /\ Head(toHost[c]).type = "handshake"
    /\ nextId <= MaxMsgIds
    /\ toHost' = [toHost EXCEPT ![c] = Tail(@)]
    /\  LET ts == Now(Host)
            newUser == Head(toHost[c]).user
            entry == [newUser EXCEPT !.status = "online"]
            existingIndex == FindIndex(users[Host], newUser.id)
            newUsers == IF existingIndex > 0
                        THEN [users[Host] EXCEPT ![existingIndex] = entry]
                        ELSE Append(users[Host], entry)
            tg1 == Broadcast(toGuest, connectionsRef,
                             [type |-> "user_list_update", users |-> newUsers])
            sysMsg == SysMsg(nextId, "joined", newUser.id, ts)
            added == AddMessage(messageIdsRef[Host], messages[Host], sysMsg)
            historyToSync == Append(messages[Host], sysMsg)
        IN  /\ connMapRef' = [connMapRef EXCEPT ![c[1]] = newUser.id]
            /\ closeListeners' = [closeListeners EXCEPT ![c] = Append(@, newUser.id)]
            /\ users' = [users EXCEPT ![Host] = newUsers]
            /\ messageIdsRef' = [messageIdsRef EXCEPT ![Host] = added[1]]
            /\ messages' = [messages EXCEPT ![Host] = added[2]]
            /\ toGuest' = Broadcast(tg1, connectionsRef, [type |-> "message", msg |-> sysMsg])
            /\ historyTimers' = historyTimers \cup {[conn |-> c, history |-> historyToSync]}
    /\ nextId' = nextId + 1
    /\ UNCHANGED <<status, error, roomId, currentUser, isInRoom, isAiThinking, aiCalls>>
    /\ UNCHANGED <<connectionsRef, kickTimers, closureUsers, guestVars>>
    /\ UNCHANGED <<peer, heartbeat, conn, closeEvtH, closeEvtG>>
    /\ UNCHANGED <<lag, sends, resends, toggles, kicks, drops>>
    /\ UNCHANGED <<histVars, typingVars>>

\* The setTimeout callback of lines 405-412: the chunked history replay.
HistoryTimer(t) ==
    /\ t \in historyTimers
    /\ historyTimers' = historyTimers \ {t}
    /\ toGuest' = IF conn[t.conn] = "open"
                  THEN [toGuest EXCEPT ![t.conn] = @ \o
                          [k \in DOMAIN HistoryChunks(t.history) |->
                              [type |-> "history_sync", history |-> HistoryChunks(t.history)[k]]]]
                  ELSE toGuest
    /\ UNCHANGED <<stateVars, connectionsRef, connMapRef, closeListeners, kickTimers, closureUsers>>
    /\ UNCHANGED <<guestVars, peer, heartbeat, conn, toHost, closeEvtH, closeEvtG, boundVars>>
    /\ UNCHANGED <<histVars, typingVars>>


\* handleHostData, data.type === 'message': lines 414-441.  `state.users` is
\* the roster of the render in which createRoom was called.
HostOnMessage(c) ==
    /\ conn[c] = "open"
    /\ toHost[c] # <<>>
    /\ Head(toHost[c]).type = "message"
    /\ toHost' = [toHost EXCEPT ![c] = Tail(@)]
    /\ LET data == Head(toHost[c])
           msg == data.msg
           added == AddMessage(messageIdsRef[Host], messages[Host], msg)
           trigger == msg.type = "TEXT" /\ Mentions(msg.content)
       IN  IF IsMutedIn(closureUsers, msg.senderId)
           THEN UNCHANGED <<messageIdsRef, messages, toGuest, isAiThinking, aiCalls>>
           ELSE /\ messageIdsRef' = [messageIdsRef EXCEPT ![Host] = added[1]]
                /\ messages' = [messages EXCEPT ![Host] = added[2]]
                /\ toGuest' = Broadcast(toGuest, connectionsRef, data)
                /\ isAiThinking' = (trigger \/ isAiThinking)
                /\ aiCalls' = IF trigger THEN aiCalls + 1 ELSE aiCalls
    /\ UNCHANGED <<status, error, roomId, users, currentUser, isInRoom>>
    /\ UNCHANGED <<hostVars, guestVars, peer, heartbeat, conn, closeEvtH, closeEvtG, boundVars>>
    /\ UNCHANGED <<histVars, typingVars>>

\* A continuation that writes the reply over the last message of the log.
AiSettleOverwrite(responseText) ==
    /\ aiCalls > 0
    /\ nextId <= MaxMsgIds
    /\  LET aiMessage == MkMsg(nextId, "ai-bot", responseText, Now(Host), "AI")
        IN  /\ messageIdsRef' = [messageIdsRef EXCEPT ![Host] = @ \cup {nextId}]
            /\ messages' = [messages EXCEPT ![Host] =
                               Append(SubSeq(@, 1, Len(@) - 1), aiMessage)]
            /\ toGuest' = Broadcast(toGuest, connectionsRef,
                                    [type |-> "message", msg |-> aiMessage])
    /\ isAiThinking' = FALSE
    /\ aiCalls' = aiCalls - 1
    /\ nextId' = nextId + 1
    /\ UNCHANGED <<status, error, roomId, users, currentUser, isInRoom>>
    /\ UNCHANGED <<hostVars, guestVars, peer, heartbeat, conn, toHost, closeEvtH, closeEvtG>>
    /\ UNCHANGED <<lag, sends, resends, toggles, kicks, drops>>
    /\ UNCHANGED <<histVars, typingVars>>

\* The continuation after `await generateAIResponse(...)`, lines 211-223 and
\* 428-440.  generateAIResponse catches every failure and resolves to a text
\* (gemini.ts lines 82-86): the reply of the service or the apology.
AiSettle(responseText) ==
    /\ aiCalls > 0
    /\ nextId <= MaxMsgIds
    /\  LET aiMessage == MkMsg(nextId, "ai-bot", responseText, Now(Host), "AI")
            added == AddMessage(messageIdsRef[Host], messages[Host], aiMessage)
        IN  /\ messageIdsRef' = [messageIdsRef EXCEPT ![Host] = added[1]]
            /\ messages' = [messages EXCEPT ![Host] = added[2]]
            /\ toGuest' = Broadcast(toGuest, connectionsRef,
                                    [type |-> "message", msg |-> aiMessage])
    /\ isAiThinking' = FALSE
    /\ aiCalls' = aiCalls - 1
    /\ nextId' = nextId + 1
    /\ UNCHANGED <<status, error, roomId, users, currentUser, isInRoom>>
    /\ UNCHANGED <<hostVars, guestVars, peer, heartbeat, conn, toHost, closeEvtH, closeEvtG>>
    /\ UNCHANGED <<lag, sends, resends, toggles, kicks, drops>>
    /\ UNCHANGED <<histVars, typingVars>>

\* sendMessage(content, type), lines 184-225, called from the chat screen, at
\* most `max` times in a run.
SendMessageWithin(p, content, type, max) ==
    /\ isInRoom[p]
    /\ currentUser[p] # NoUser
    /\ ~currentUser[p].isMuted
    /\ sends < max
    /\ nextId <= MaxMsgIds
    /\  LET newMessage == MkMsg(nextId, currentUser[p].id, content, Now(p), type)
            added == AddMessage(messageIdsRef[p], messages[p], newMessage)
            payload == [type |-> "message", msg |-> newMessage]
            trigger == currentUser[p].isHost /\ type = "TEXT" /\ Mentions(content)
        IN  /\ messageIdsRef' = [messageIdsRef EXCEPT ![p] = added[1]]
            /\ messages' = [messages EXCEPT ![p] = added[2]]
            /\ IF currentUser[p].isHost
               THEN /\ toGuest' = Broadcast(toGuest, connectionsRef, payload)
                    /\ UNCHANGED toHost
               ELSE /\ toHost' = SendToHost(toHost, p, payload)
                    /\ UNCHANGED toGuest
            /\ isAiThinking' = (trigger \/ isAiThinking)
            /\ aiCalls' = IF trigger THEN aiCalls + 1 ELSE aiCalls
    /\ nextId' = nextId + 1
    /\ sends' = sends + 1
    /\ UNCHANGED <<status, error, roomId, users, currentUser, isInRoom>>
    /\ UNCHANGED <<hostVars, guestVars, peer, heartbeat, conn, closeEvtH, closeEvtG>>
    /\ UNCHANGED <<lag, resends, toggles, kicks, drops>>
    /\ UNCHANGED <<histVars, typingVars>>

SendMessage(p, content, type) == SendMessageWithin(p, content, type, MaxSends)

\* The targets the chat screen offers the host's admin buttons for
\* (ChatScreen.tsx line 331).
AdminTargets == {u.id : u \in {v \in Range(users[Host]) : ~v.isHost /\ v.id # "ai-bot"}}

\* A toggle that always mutes.
ToggleMuteUserOn(target) ==
    /\ isInRoom[Host]
    /\ currentUser[Host].isHost
    /\ target \in AdminTargets
    /\ toggles < MaxToggles
    /\ LET updatedUsers == [i \in DOMAIN users[Host] |->
                              IF users[Host][i].id = target
                              THEN [users[Host][i] EXCEPT !.isMuted = TRUE]
                              ELSE users[Host][i]]
       IN  /\ toGuest' = Broadcast(toGuest, connectionsRef,
                                   [type |-> "user_list_update", users |-> updatedUsers])
           /\ users' = [users EXCEPT ![Host] = updatedUsers]
    /\ toggles' = toggles + 1
    /\ UNCHANGED <<status, error, roomId, messages, currentUser, isInRoom>>
    /\ UNCHANGED <<messageIdsRef, isAiThinking, aiCalls, hostVars, guestVars>>
    /\ UNCHANGED <<peer, heartbeat, conn, toHost, closeEvtH, closeEvtG>>
    /\ UNCHANGED <<nextId, lag, sends, resends, kicks, drops>>
    /\ UNCHANGED <<histVars, typingVars>>

\* toggleMuteUser(targetUserId), lines 149-160.
ToggleMuteUser(target) ==
    /\ isInRoom[Host]
    /\ currentUser[Host].isHost
    /\ target \in AdminTargets
    /\ toggles < MaxToggles
    /\ LET updatedUsers == [i \in DOMAIN users[Host] |->
                              IF users[Host][i].id = target
                              THEN [users[Host][i] EXCEPT !.isMuted = ~@]
                              ELSE users[Host][i]]
       IN  /\ toGuest' = Broadcast(toGuest, connectionsRef,
                                   [type |-> "user_list_update", users |-> updatedUsers])
           /\ users' = [users EXCEPT ![Host] = updatedUsers]
    /\ toggles' = toggles + 1
    /\ UNCHANGED <<status, error, roomId, messages, currentUser, isInRoom>>
    /\ UNCHANGED <<messageIdsRef, isAiThinking, aiCalls, hostVars, guestVars>>
    /\ UNCHANGED <<peer, heartbeat, conn, toHost, closeEvtH, closeEvtG>>
    /\ UNCHANGED <<nextId, lag, sends, resends, kicks, drops>>
    /\ UNCHANGED <<histVars, typingVars>>

\* connectionsRef.current.find(c => connMapRef.current.get(c.peer) === id),
\* as an index into connectionsRef, 0 when there is none.
FindConn(target) ==
    LET hit == {i \in DOMAIN connectionsRef : connMapRef[connectionsRef[i][1]] = target}
    IN  IF hit = {} THEN 0 ELSE CHOOSE i \in hit : \A j \in hit : i <= j

\* A kickUser that leaves the roster and the log to the close of the connection.
KickUserLazy(target) ==
    /\ isInRoom[Host]
    /\ currentUser[Host].isHost
    /\ target \in AdminTargets
    /\ kicks < MaxKicks
    /\ nextId <= MaxMsgIds
    /\ LET i == FindConn(target)
       IN  /\ toGuest' = IF i # 0 /\ conn[connectionsRef[i]] = "open"
                         THEN [toGuest EXCEPT ![connectionsRef[i]] =
                                  Append(@, [type |-> "kick_notification", reason |-> "kicked"])]
                         ELSE toGuest
           /\ kickTimers' = IF i # 0 THEN kickTimers \cup {connectionsRef[i]} ELSE kickTimers
    /\ kicks' = kicks + 1
    /\ UNCHANGED <<stateVars, connectionsRef, nextId>>
    /\ UNCHANGED <<connMapRef, closeListeners, historyTimers, closureUsers, guestVars>>
    /\ UNCHANGED <<peer, heartbeat, conn, toHost, closeEvtH, closeEvtG>>
    /\ UNCHANGED <<lag, sends, resends, toggles, drops>>
    /\ UNCHANGED <<histVars, typingVars>>

\* kickUser(targetUserId), lines 129-147.
KickUser(target) ==
    /\ isInRoom[Host]
    /\ currentUser[Host].isHost
    /\ target \in AdminTargets
    /\ kicks < MaxKicks
    /\ nextId <= MaxMsgIds
    /\ LET i == FindConn(target)
           tg1 == IF i # 0 /\ conn[connectionsRef[i]] = "open"
                  THEN [toGuest EXCEPT ![connectionsRef[i]] =
                           Append(@, [type |-> "kick_notification", reason |-> "kicked"])]
                  ELSE toGuest
       IN  /\ kickTimers' = IF i # 0 THEN kickTimers \cup {connectionsRef[i]} ELSE kickTimers
           /\ SetHostData(HandleUserDisconnect([HostData EXCEPT !.tg = tg1], target, Now(Host)))
    /\ kicks' = kicks + 1
    /\ UNCHANGED <<status, error, roomId, currentUser, isInRoom, isAiThinking, aiCalls>>
    /\ UNCHANGED <<connMapRef, closeListeners, historyTimers, closureUsers, guestVars>>
    /\ UNCHANGED <<peer, heartbeat, conn, toHost, closeEvtH, closeEvtG>>
    /\ UNCHANGED <<lag, sends, resends, toggles, drops>>
    /\ UNCHANGED <<histVars, typingVars>>

\* A DataConnection closes: it is no longer open on either side, what was in
\* flight is lost and each side gets a 'close' event.
CloseConn(c) ==
    /\ conn' = [conn EXCEPT ![c] = "closed"]
    /\ closeEvtH' = [closeEvtH EXCEPT ![c] = TRUE]
    /\ closeEvtG' = [closeEvtG EXCEPT ![c] = TRUE]

\* The setTimeout(() => conn.close(), 500) of line 140.
KickTimer(c) ==
    /\ c \in kickTimers
    /\ kickTimers' = kickTimers \ {c}
    /\ IF conn[c] = "open"
       THEN /\ CloseConn(c)
            /\ toHost' = [toHost EXCEPT ![c] = <<>>]
            /\ toGuest' = [toGuest EXCEPT ![c] = <<>>]
       ELSE UNCHANGED <<conn, closeEvtH, closeEvtG, toHost, toGuest>>
    /\ UNCHANGED <<stateVars, connectionsRef, connMapRef, closeListeners, historyTimers>>
    /\ UNCHANGED <<closureUsers, guestVars, peer, heartbeat, boundVars>>
    /\ UNCHANGED <<histVars, typingVars>>


\* ------------------------------------------------------ guest handlers
\* handleGuestData is the one made in joinRoom: its `currentUser` is closureUser.

GuestHas(c, type) ==
    /\ conn[c] = "open"
    /\ toGuest[c] # <<>>
    /\ Head(toGuest[c]).type = type

\* data.type === 'user_list_update': lines 480-487.
GuestOnUserList(c) ==
    LET g == c[1]
        payload == Head(toGuest[c]).users
        i == FindIndex(payload, closureUser[g].id)
    IN
    /\ GuestHas(c, "user_list_update")
    /\ toGuest' = [toGuest EXCEPT ![c] = Tail(@)]
    /\ users' = [users EXCEPT ![g] = payload]
    /\ currentUser' =
          IF /\ closureUser[g] # NoUser
             /\ i # 0
             /\ payload[i].isMuted # closureUser[g].isMuted
             /\ currentUser[g] # NoUser
          THEN [currentUser EXCEPT ![g].isMuted = payload[i].isMuted]
          ELSE currentUser
    /\ UNCHANGED <<status, error, roomId, messages, isInRoom, messageIdsRef>>
    /\ UNCHANGED <<isAiThinking, aiCalls, hostVars, guestVars>>
    /\ UNCHANGED <<peer, heartbeat, conn, toHost, closeEvtH, closeEvtG, boundVars>>
    /\ UNCHANGED <<histVars, typingVars>>

\* data.type === 'message': lines 489-490.
GuestOnMessage(c) ==
    LET g == c[1]
        added == AddMessage(messageIdsRef[g], messages[g], Head(toGuest[c]).msg)
    IN
    /\ GuestHas(c, "message")
    /\ toGuest' = [toGuest EXCEPT ![c] = Tail(@)]
    /\ messageIdsRef' = [messageIdsRef EXCEPT ![g] = added[1]]
    /\ messages' = [messages EXCEPT ![g] = added[2]]
    /\ UNCHANGED <<status, error, roomId, users, currentUser, isInRoom>>
    /\ UNCHANGED <<isAiThinking, aiCalls, hostVars, guestVars>>
    /\ UNCHANGED <<peer, heartbeat, conn, toHost, closeEvtH, closeEvtG, boundVars>>
    /\ UNCHANGED <<histVars, typingVars>>

\* data.type === 'history_sync': lines 491-509.
GuestOnHistory(c) ==
    LET g == c[1]
        synced == SyncHistory(messageIdsRef[g], messages[g], Head(toGuest[c]).history)
    IN
    /\ GuestHas(c, "history_sync")
    /\ toGuest' = [toGuest EXCEPT ![c] = Tail(@)]
    /\ messageIdsRef' = [messageIdsRef EXCEPT ![g] = synced[1]]
    /\ messages' = [messages EXCEPT ![g] = synced[2]]
    /\ UNCHANGED <<status, error, roomId, users, currentUser, isInRoom>>
    /\ UNCHANGED <<isAiThinking, aiCalls, hostVars, guestVars>>
    /\ UNCHANGED <<peer, heartbeat, conn, toHost, closeEvtH, closeEvtG, boundVars>>
    /\ UNCHANGED <<histVars, typingVars>>

\* data.type === 'kick_notification': lines 514-517.  The connection closed
\* is hostConnectionRef.current, the one dialled last.
GuestOnKick(c) ==
    LET g == c[1]
        h == <<g, hostConnectionRef[g]>>
    IN
    /\ GuestHas(c, "kick_notification")
    /\ status' = [status EXCEPT ![g] = "kicked"]
    /\ evicted' = [evicted EXCEPT ![g] = TRUE]
    /\ UNCHANGED <<chunkSent, liveSent, typingVars>>
    /\ error' = [error EXCEPT ![g] = Head(toGuest[c]).reason]
    /\ IF hostConnectionRef[g] # 0 /\ conn[h] = "open"
       THEN /\ CloseConn(h)
            /\ toHost' = [toHost EXCEPT ![h] = <<>>]
            /\ toGuest' = [toGuest EXCEPT ![c] = Tail(@), ![h] = <<>>]
       ELSE /\ conn' = IF hostConnectionRef[g] # 0 /\ conn[h] \in {"dialing", "pending"}
                       THEN [conn EXCEPT ![h] = "closed"] ELSE conn
            /\ toGuest' = [toGuest EXCEPT ![c] = Tail(@)]
            /\ UNCHANGED <<toHost, closeEvtH, closeEvtG>>
    /\ UNCHANGED <<roomId, users, messages, currentUser, isInRoom, messageIdsRef>>
    /\ UNCHANGED <<isAiThinking, aiCalls, hostVars, guestVars, peer, heartbeat, boundVars>>

\* conn.on('close') of the guest, lines 317-321: `state.status` is the status
\* of the render in which joinRoom was called.
GuestConnClose(c) ==
    LET g == c[1] IN
    /\ closeEvtG[c]
    /\ closeEvtG' = [closeEvtG EXCEPT ![c] = FALSE]
    /\ IF closureStatus[g] # "kicked"
       THEN /\ status' = [status EXCEPT ![g] = "error"]
            /\ error' = [error EXCEPT ![g] = "Host disconnected."]
       ELSE UNCHANGED <<status, error>>
    /\ UNCHANGED <<roomId, users, messages, currentUser, isInRoom, messageIdsRef>>
    /\ UNCHANGED <<isAiThinking, aiCalls, hostVars, guestVars>>
    /\ UNCHANGED <<peer, heartbeat, conn, toHost, toGuest, closeEvtH, boundVars>>
    /\ UNCHANGED <<histVars, typingVars>>


\* ------------------------------------------- dial failures and timers

\* peer.on('error') of the guest with err.type === 'peer-unavailable', lines
\* 328-343: the signaling service reports that nobody is registered under
\* the room id.
PeerUnavailable(c) ==
    LET g == c[1] IN
    /\ conn[c] = "dialing"
    /\ peer[Host] # "open"
    /\ conn' = [conn EXCEPT ![c] = "failed"]
    /\ IF retryCountRef[g] < MAX_RETRIES
       THEN /\ retryCountRef' = [retryCountRef EXCEPT ![g] = @ + 1]
            /\ retryTimers' = [retryTimers EXCEPT ![g] = Append(@, joins[g])]
            /\ UNCHANGED <<status, error>>
       ELSE /\ status' = [status EXCEPT ![g] = "error"]
            /\ error' = [error EXCEPT ![g] = "Room ID not found. Host might be offline."]
            /\ UNCHANGED <<retryCountRef, retryTimers>>
    /\ UNCHANGED <<roomId, users, messages, currentUser, isInRoom, messageIdsRef>>
    /\ UNCHANGED <<isAiThinking, aiCalls, hostVars, closureStatus, closureUser>>
    /\ UNCHANGED <<joins, dials, hostConnectionRef, connectionTimeoutRef, dialTimers>>
    /\ UNCHANGED <<peer, heartbeat, toHost, toGuest, closeEvtH, closeEvtG, boundVars>>
    /\ UNCHANGED <<histVars, typingVars>>

\* An error handler that retries after a failure of any class.
PeerErrorRetried(g, type) ==
    /\ peer[g] = "connecting"
    /\ ~heartbeat[g]
    /\ peer' = [peer EXCEPT ![g] = "failed"]
    /\ IF retryCountRef[g] < MAX_RETRIES
       THEN /\ retryCountRef' = [retryCountRef EXCEPT ![g] = @ + 1]
            /\ retryTimers' = [retryTimers EXCEPT ![g] = Append(@, joins[g])]
            /\ UNCHANGED <<status, error>>
       ELSE /\ status' = [status EXCEPT ![g] = "error"]
            /\ error' = [error EXCEPT ![g] = "Connection Error: " \o type]
            /\ UNCHANGED <<retryCountRef, retryTimers>>
    /\ UNCHANGED <<roomId, users, messages, currentUser, isInRoom, messageIdsRef>>
    /\ UNCHANGED <<isAiThinking, aiCalls, hostVars, closureStatus, closureUser>>
    /\ UNCHANGED <<joins, dials, hostConnectionRef, connectionTimeoutRef, dialTimers>>
    /\ UNCHANGED <<heartbeat, conn, toHost, toGuest, closeEvtH, closeEvtG, boundVars>>
    /\ UNCHANGED <<histVars, typingVars>>

\* peer.on('error') of joinRoom, lines 328-343, for an error of a class other
\* than 'peer-unavailable' met while the guest's Peer registers: the else
\* branch, whatever retryCountRef holds.  The library gives up the Peer.
PeerError(g, type) ==
    /\ peer[g] = "connecting"
    /\ ~heartbeat[g]
    /\ peer' = [peer EXCEPT ![g] = "failed"]
    /\ status' = [status EXCEPT ![g] = "error"]
    /\ error' = [error EXCEPT ![g] = "Connection Error: " \o type]
    /\ UNCHANGED <<roomId, users, messages, currentUser, isInRoom, messageIdsRef>>
    /\ UNCHANGED <<isAiThinking, aiCalls, hostVars, closureStatus, closureUser>>
    /\ UNCHANGED <<joins, dials, hostConnectionRef, retryCountRef, retryTimers>>
    /\ UNCHANGED <<connectionTimeoutRef, dialTimers>>
    /\ UNCHANGED <<heartbeat, conn, toHost, toGuest, closeEvtH, closeEvtG, boundVars>>
    /\ UNCHANGED <<histVars, typingVars>>

\* setTimeout(attemptConnection, 2000), line 333.  The callback dials through
\* the Peer of the joinRoom call that made it; on a Peer that is destroyed or
\* disconnected peer.connect reports an error of type 'disconnected' and
\* returns nothing.
RetryTimer(g, i) ==
    /\ i \in DOMAIN retryTimers[g]
    /\ retryTimers' = [retryTimers EXCEPT
                          ![g] = SubSeq(@, 1, i - 1) \o SubSeq(@, i + 1, Len(@))]
    /\ IF retryTimers[g][i] = joins[g] /\ peer[g] \notin {"disconnected", "failed"}
       THEN /\ AttemptConnection(g)
            /\ UNCHANGED <<status, error>>
       ELSE /\ hostConnectionRef' = [hostConnectionRef EXCEPT ![g] = 0]
            /\ status' = [status EXCEPT ![g] = "error"]
            /\ error' = [error EXCEPT ![g] = "Connection Error: disconnected"]
            /\ UNCHANGED <<dials, conn>>
    /\ UNCHANGED <<roomId, users, messages, currentUser, isInRoom, messageIdsRef>>
    /\ UNCHANGED <<isAiThinking, aiCalls, hostVars, closureStatus, closureUser>>
    /\ UNCHANGED <<joins, retryCountRef, connectionTimeoutRef, dialTimers>>
    /\ UNCHANGED <<peer, heartbeat, toHost, toGuest, closeEvtH, closeEvtG, boundVars>>
    /\ UNCHANGED <<histVars, typingVars>>

\* The dial timeout of lines 345-349; `state.status` is the status of the
\* render in which joinRoom was called.
DialTimeout(g, t) ==
    /\ t \in dialTimers[g]
    /\ dialTimers' = [dialTimers EXCEPT ![g] = @ \ {t}]
    /\ IF t.seen # "connected"
       THEN /\ status' = [status EXCEPT ![g] = "error"]
            /\ error' = [error EXCEPT ![g] = "Connection timed out."]
       ELSE UNCHANGED <<status, error>>
    /\ UNCHANGED <<roomId, users, messages, currentUser, isInRoom, messageIdsRef>>
    /\ UNCHANGED <<isAiThinking, aiCalls, hostVars, closureStatus, closureUser>>
    /\ UNCHANGED <<joins, dials, hostConnectionRef, retryCountRef, retryTimers>>
    /\ UNCHANGED <<connectionTimeoutRef, netVars, boundVars>>
    /\ UNCHANGED <<histVars, typingVars>>

\* A liveness check that asks for a reconnection whenever the Peer is not
\* disconnected.
HeartbeatEager(p) ==
    /\ heartbeat[p]
    /\ peer[p] = "open"
    /\ peer' = [peer EXCEPT ![p] = "connecting"]
    /\ UNCHANGED <<stateVars, hostVars, guestVars>>
    /\ UNCHANGED <<heartbeat, conn, toHost, toGuest, closeEvtH, closeEvtG, boundVars>>
    /\ UNCHANGED <<histVars, typingVars>>

\* The interval callback of startHeartbeat, lines 229-235 (the Peer it watches
\* is never a destroyed one: a Peer is replaced only before its heartbeat is
\* started).
Heartbeat(p) ==
    /\ heartbeat[p]
    /\ peer[p] = "disconnected"
    /\ peer' = [peer EXCEPT ![p] = "connecting"]
    /\ UNCHANGED <<stateVars, hostVars, guestVars>>
    /\ UNCHANGED <<heartbeat, conn, toHost, toGuest, closeEvtH, closeEvtG, boundVars>>
    /\ UNCHANGED <<histVars, typingVars>>

\* ------------------------------------------------------- environment

\* The link to the signaling service is lost; the peer connections stay.
SignalingDrop(p) ==
    /\ peer[p] = "open"
    /\ drops < MaxDrops
    /\ peer' = [peer EXCEPT ![p] = "disconnected"]
    /\ drops' = drops + 1
    /\ UNCHANGED <<stateVars, hostVars, guestVars>>
    /\ UNCHANGED <<heartbeat, conn, toHost, toGuest, closeEvtH, closeEvtG>>
    /\ UNCHANGED <<nextId, lag, sends, resends, toggles, kicks>>
    /\ UNCHANGED <<histVars, typingVars>>

\* The signaling service reports an error to a registered Peer and the link
\* is lost; the peer connections stay.  The Peer's 'error' handler runs:
\* lines 271-274 on the host, the else branch of lines 328-343 on a guest.
SignalingError(p, type) ==
    /\ peer[p] = "open"
    /\ drops < MaxDrops
    /\ peer' = [peer EXCEPT ![p] = "disconnected"]
    /\ status' = [status EXCEPT ![p] = "error"]
    /\ error' = [error EXCEPT ![p] = IF p = Host THEN "Host Error: " \o type
                                     ELSE "Connection Error: " \o type]
    /\ drops' = drops + 1
    /\ UNCHANGED <<roomId, users, messages, currentUser, isInRoom, messageIdsRef>>
    /\ UNCHANGED <<isAiThinking, aiCalls, hostVars, guestVars>>
    /\ UNCHANGED <<heartbeat, conn, toHost, toGuest, closeEvtH, closeEvtG>>
    /\ UNCHANGED <<nextId, lag, sends, resends, toggles, kicks>>
    /\ UNCHANGED <<histVars, typingVars>>

\* An open connection is lost (the guest leaves or the transport fails).
ConnDrop(c) ==
    /\ conn[c] = "open"
    /\ drops < MaxDrops
    /\ CloseConn(c)
    /\ toHost' = [toHost EXCEPT ![c] = <<>>]
    /\ toGuest' = [toGuest EXCEPT ![c] = <<>>]
    /\ drops' = drops + 1
    /\ UNCHANGED <<stateVars, hostVars, guestVars, peer, heartbeat>>
    /\ UNCHANGED <<nextId, lag, sends, resends, toggles, kicks>>
    /\ UNCHANGED <<histVars, typingVars>>

\* A Chat envelope the guest sent before reaches the host once more.
ResendChat(g) ==
    /\ resends < MaxResends
    /\ hostConnectionRef[g] # 0
    /\ conn[<<g, hostConnectionRef[g]>>] = "open"
    /\ \E i \in DOMAIN messages[g] :
          /\ messages[g][i].senderId = currentUser[g].id
          /\ toHost' = SendToHost(toHost, g, [type |-> "message", msg |-> messages[g][i]])
    /\ resends' = resends + 1
    /\ UNCHANGED <<stateVars, hostVars, guestVars>>
    /\ UNCHANGED <<peer, heartbeat, conn, toGuest, closeEvtH, closeEvtG>>
    /\ UNCHANGED <<nextId, lag, sends, toggles, kicks, drops>>
    /\ UNCHANGED <<histVars, typingVars>>

\* ---------------------------------------------------- specifications

\* A client sends its Handshake once more on the connection it has open.
ResendHandshake(g) ==
    /\ resends < MaxResends
    /\ hostConnectionRef[g] # 0
    /\ conn[<<g, hostConnectionRef[g]>>] = "open"
    /\ connMapRef[g] # "none"
    /\ toHost' = SendToHost(toHost, g, [type |-> "handshake",
                                        user |-> MkUser(currentUser[g].id, FALSE)])
    /\ resends' = resends + 1
    /\ UNCHANGED <<stateVars, hostVars, guestVars>>
    /\ UNCHANGED <<peer, heartbeat, conn, toGuest, closeEvtH, closeEvtG>>
    /\ UNCHANGED <<nextId, lag, sends, toggles, kicks, drops>>
    /\ UNCHANGED <<histVars, typingVars>>

\* The effect of lines 63-74 in a tab opened after createRoom has saved the
\* host's profile: the tabs of one browser share the stored profile.
RestoreProfile(g) ==
    /\ joins[g] = 0
    /\ currentUser[g] = NoUser
    /\ currentUser[Host] # NoUser
    /\ currentUser' = [currentUser EXCEPT ![g] = MkUser(currentUser[Host].id, FALSE)]
    /\ UNCHANGED <<status, error, roomId, users, messages, isInRoom, messageIdsRef>>
    /\ UNCHANGED <<isAiThinking, aiCalls, hostVars, closureStatus, closureUser>>
    /\ UNCHANGED <<joins, dials, hostConnectionRef, retryCountRef, retryTimers>>
    /\ UNCHANGED <<connectionTimeoutRef, dialTimers, netVars, boundVars>>
    /\ UNCHANGED <<histVars, typingVars>>

\* The effect of lines 63-74 in a tab opened after joinRoom in another tab
\* of the same browser has saved the profile of guest o.
RestoreProfileFrom(g, o) ==
    /\ joins[g] = 0
    /\ currentUser[g] = NoUser
    /\ joins[o] > 0
    /\ currentUser' = [currentUser EXCEPT ![g] = MkUser(currentUser[o].id, FALSE)]
    /\ UNCHANGED <<status, error, roomId, users, messages, isInRoom, messageIdsRef>>
    /\ UNCHANGED <<isAiThinking, aiCalls, hostVars, closureStatus, closureUser>>
    /\ UNCHANGED <<joins, dials, hostConnectionRef, retryCountRef, retryTimers>>
    /\ UNCHANGED <<connectionTimeoutRef, dialTimers, netVars, boundVars>>
    /\ UNCHANGED <<histVars, typingVars>>

\* ------------------------------------------------------ typing indicators

\* A handleTypingUpdate that appends without removing the name first.
HandleTypingUpdateAppend(typing, name, isTyping) ==
    IF isTyping
    THEN Append(typing, name)
    ELSE SelectSeq(typing, LAMBDA n : n # name)

\* handleTypingUpdate(name, isTyping), lines 120-126: the new typingUsers.
HandleTypingUpdate(typing, name, isTyping) ==
    LET others == SelectSeq(typing, LAMBDA n : n # name)
    IN  IF isTyping THEN Append(others, name) ELSE others

\* setTyping(isTyping) of a render of process p in which currentUser was u,
\* lines 174-182.  typingSent records the signal when an envelope is sent.
SetTyping(p, u, isTyping) ==
    LET payload == [type |-> "typing_status", name |-> u.id, isTyping |-> isTyping]
    IN
    IF u = NoUser \/ u.isMuted
    THEN UNCHANGED <<toHost, toGuest, typingSent>>
    ELSE /\ IF u.isHost
            THEN /\ toGuest' = Broadcast(toGuest, connectionsRef, payload)
                 /\ UNCHANGED toHost
            ELSE /\ toHost' = SendToHost(toHost, p, payload)
                 /\ UNCHANGED toGuest
         /\ typingSent' = [typingSent EXCEPT ![p] =
                              IF toHost' = toHost /\ toGuest' = toGuest THEN @
                              ELSE IF isTyping THEN "typing" ELSE "stopped"]

\* handleInputChange, ChatScreen.tsx lines 136-162.  The input is disabled
\* while currentUser.isMuted (line 553).  `elapsed` says whether more than
\* 1500 ms have passed since lastTypingSentRef when that is a time stamp.
\* The timer's callback calls the setTyping of this render.
HandleInputChange(p, elapsed) ==
    /\ isInRoom[p]
    /\ currentUser[p] # NoUser
    /\ ~currentUser[p].isMuted
    /\ inputs < MaxInputs
    /\ inputs' = inputs + 1
    /\ IF lastTypingSentRef[p] = 0 \/ elapsed
       THEN /\ SetTyping(p, currentUser[p], TRUE)
            /\ lastTypingSentRef' = [lastTypingSentRef EXCEPT ![p] = 1]
       ELSE UNCHANGED <<toHost, toGuest, typingSent, lastTypingSentRef>>
    /\ typingTimeoutRef' = [typingTimeoutRef EXCEPT ![p] = <<currentUser[p]>>]
    /\ UNCHANGED <<stateVars, hostVars, guestVars, peer, heartbeat, conn, closeEvtH, closeEvtG>>
    /\ UNCHANGED <<boundVars, histVars, typingUsers, hidden, flips>>

\* A timer callback that calls the setTyping of the current render.
TypingTimerFresh(p) ==
    /\ typingTimeoutRef[p] # <<>>
    /\ SetTyping(p, currentUser[p], FALSE)
    /\ lastTypingSentRef' = [lastTypingSentRef EXCEPT ![p] = 0]
    /\ typingTimeoutRef' = [typingTimeoutRef EXCEPT ![p] = <<>>]
    /\ UNCHANGED <<stateVars, hostVars, guestVars, peer, heartbeat, conn, closeEvtH, closeEvtG>>
    /\ UNCHANGED <<boundVars, histVars, typingUsers, hidden, inputs, flips>>

\* The callback of the 2000 ms timer, ChatScreen.tsx lines 157-161.
TypingTimer(p) ==
    /\ typingTimeoutRef[p] # <<>>
    /\ SetTyping(p, typingTimeoutRef[p][1], FALSE)
    /\ lastTypingSentRef' = [lastTypingSentRef EXCEPT ![p] = 0]
    /\ typingTimeoutRef' = [typingTimeoutRef EXCEPT ![p] = <<>>]
    /\ UNCHANGED <<stateVars, hostVars, guestVars, peer, heartbeat, conn, closeEvtH, closeEvtG>>
    /\ UNCHANGED <<boundVars, histVars, typingUsers, hidden, inputs, flips>>

\* handleSendMessage, ChatScreen.tsx lines 123-134: sendMessage of a text,
\* then the timer is cleared and setTyping(false) is called.
HandleSendMessage(p, content) ==
    /\ isInRoom[p]
    /\ currentUser[p] # NoUser
    /\ ~currentUser[p].isMuted
    /\ sends < MaxSends
    /\ nextId <= MaxMsgIds
    /\  LET newMessage == MkMsg(nextId, currentUser[p].id, content, Now(p), "TEXT")
            added == AddMessage(messageIdsRef[p], messages[p], newMessage)
            payload == [type |-> "message", msg |-> newMessage]
            stop == [type |-> "typing_status", name |-> currentUser[p].id,
                     isTyping |-> FALSE]
            trigger == currentUser[p].isHost /\ Mentions(content)
        IN  /\ messageIdsRef' = [messageIdsRef EXCEPT ![p] = added[1]]
            /\ messages' = [messages EXCEPT ![p] = added[2]]
            /\ IF currentUser[p].isHost
               THEN /\ toGuest' = Broadcast(Broadcast(toGuest, connectionsRef, payload),
                                            connectionsRef, stop)
                    /\ UNCHANGED toHost
               ELSE /\ toHost' = SendToHost(SendToHost(toHost, p, payload), p, stop)
                    /\ UNCHANGED toGuest
            /\ isAiThinking' = (trigger \/ isAiThinking)
            /\ aiCalls' = IF trigger THEN aiCalls + 1 ELSE aiCalls
    /\ typingSent' = [typingSent EXCEPT ![p] =
                         IF toHost' = toHost /\ toGuest' = toGuest THEN @ ELSE "stopped"]
    /\ typingTimeoutRef' = [typingTimeoutRef EXCEPT ![p] = <<>>]
    /\ lastTypingSentRef' = [lastTypingSentRef EXCEPT ![p] = 0]
    /\ nextId' = nextId + 1
    /\ sends' = sends + 1
    /\ UNCHANGED <<status, error, roomId, users, currentUser, isInRoom>>
    /\ UNCHANGED <<hostVars, guestVars, peer, heartbeat, conn, closeEvtH, closeEvtG>>
    /\ UNCHANGED <<lag, resends, toggles, kicks, drops>>
    /\ UNCHANGED <<histVars, typingUsers, hidden, inputs, flips>>

\* handleHostData, data.type === 'typing_status': lines 442-445.
HostOnTyping(c) ==
    /\ conn[c] = "open"
    /\ toHost[c] # <<>>
    /\ Head(toHost[c]).type = "typing_status"
    /\ toHost' = [toHost EXCEPT ![c] = Tail(@)]
    /\ LET data == Head(toHost[c])
       IN  /\ typingUsers' = [typingUsers EXCEPT
                                 ![Host] = HandleTypingUpdate(@, data.name, data.isTyping)]
           /\ toGuest' = Broadcast(toGuest, connectionsRef, data)
    /\ UNCHANGED <<stateVars, hostVars, guestVars, peer, heartbeat, conn, closeEvtH, closeEvtG>>
    /\ UNCHANGED <<boundVars, histVars>>
    /\ UNCHANGED <<typingTimeoutRef, lastTypingSentRef, hidden, typingSent, inputs, flips>>

\* handleGuestData, data.type === 'typing_status': lines 511-513.
GuestOnTyping(c) ==
    /\ GuestHas(c, "typing_status")
    /\ toGuest' = [toGuest EXCEPT ![c] = Tail(@)]
    /\ LET data == Head(toGuest[c])
       IN  typingUsers' = [typingUsers EXCEPT
                              ![c[1]] = HandleTypingUpdate(@, data.name, data.isTyping)]
    /\ UNCHANGED <<stateVars, hostVars, guestVars, peer, heartbeat, conn, toHost, closeEvtH, closeEvtG>>
    /\ UNCHANGED <<boundVars, histVars>>
    /\ UNCHANGED <<typingTimeoutRef, lastTypingSentRef, hidden, typingSent, inputs, flips>>

\* ---------------------------------------------------------------- presence

\* A handleStatusUpdate that gives the status to every entry.
HandleStatusUpdateAll(us, userId, st) ==
    [i \in DOMAIN us |-> [us[i] EXCEPT !.status = st]]

\* handleStatusUpdate(userId, status), lines 356-362: the new roster.
HandleStatusUpdate(us, userId, st) ==
    [i \in DOMAIN us |-> IF us[i].id = userId THEN [us[i] EXCEPT !.status = st] ELSE us[i]]

\* handleVisibilityChange, lines 86-106, after document.hidden has changed.
HandleVisibilityChange(p) ==
    /\ flips < MaxFlips
    /\ flips' = flips + 1
    /\ hidden' = [hidden EXCEPT ![p] = ~@]
    /\ LET newStatus == IF ~hidden[p] THEN "away" ELSE "online"
           newUsers == HandleStatusUpdate(users[Host], currentUser[p].id, newStatus)
       IN  IF currentUser[p] = NoUser \/ status[p] # "connected"
           THEN UNCHANGED <<users, toHost, toGuest>>
           ELSE IF currentUser[p].isHost
                THEN /\ users' = [users EXCEPT ![Host] = newUsers]
                     /\ toGuest' = Broadcast(toGuest, connectionsRef,
                                      [type |-> "user_list_update", users |-> newUsers])
                     /\ UNCHANGED toHost
                ELSE /\ toHost' = SendToHost(toHost, p,
                                      [type |-> "status_update",
                                       userId |-> currentUser[p].id, status |-> newStatus])
                     /\ UNCHANGED <<users, toGuest>>
    /\ UNCHANGED <<status, error, roomId, messages, currentUser, isInRoom>>
    /\ UNCHANGED <<messageIdsRef, isAiThinking, aiCalls>>
    /\ UNCHANGED <<hostVars, guestVars, peer, heartbeat, conn, closeEvtH, closeEvtG>>
    /\ UNCHANGED <<boundVars, histVars>>
    /\ UNCHANGED <<typingUsers, typingTimeoutRef, lastTypingSentRef, typingSent, inputs>>

\* handleHostData, data.type === 'status_update': lines 446-449.
HostOnStatus(c) ==
    /\ conn[c] = "open"
    /\ toHost[c] # <<>>
    /\ Head(toHost[c]).type = "status_update"
    /\ toHost' = [toHost EXCEPT ![c] = Tail(@)]
    /\ LET data == Head(toHost[c])
           newUsers == HandleStatusUpdate(users[Host], data.userId, data.status)
       IN  /\ users' = [users EXCEPT ![Host] = newUsers]
           /\ toGuest' = Broadcast(toGuest, connectionsRef,
                            [type |-> "user_list_update", users |-> newUsers])
    /\ UNCHANGED <<status, error, roomId, messages, currentUser, isInRoom>>
    /\ UNCHANGED <<messageIdsRef, isAiThinking, aiCalls>>
    /\ UNCHANGED <<hostVars, guestVars, peer, heartbeat, conn, closeEvtH, closeEvtG>>
    /\ UNCHANGED <<boundVars, histVars, typingVars>>

\* A guest joins, once, a room that exists.
JoinExisting(g) == roomId[Host] = ROOM /\ joins[g] = 0 /\ JoinRoom(g)

SendText(p) == SendMessage(p, <<"plain", "">>, "TEXT")

ConnsOf(G) == {c \in Conns : c[1] \in G}

\* Setting up the room and admitting the guests of G, without failures.
Admission(G) ==
    \/ CreateRoom
    \/ HostPeerOpen
    \/ \E g \in G : JoinExisting(g)
    \/ \E g \in G : GuestPeerOpen(g)
    \/ \E c \in ConnsOf(G) : HostOnConnection(c)
    \/ \E c \in ConnsOf(G) : ConnOpen(c)
    \/ \E c \in ConnsOf(G) : HostOnHandshake(c)
    \/ \E t \in historyTimers : HistoryTimer(t)
    \/ \E c \in ConnsOf(G) : GuestOnUserList(c)
    \/ \E c \in ConnsOf(G) : GuestOnMessage(c)
    \/ \E c \in ConnsOf(G) : GuestOnHistory(c)

\* The relay: admission, chat and repeated deliveries.
Next ==
    \/ Admission(Guests)
    \/ \E c \in Conns : HostOnMessage(c)
    \/ \E p \in Procs : SendText(p)
    \/ \E g \in Guests : ResendChat(g)

Spec == Init /\ [][Next]_vars

\* Departures: connections that drop, and evictions.
NextLeave ==
    \/ Admission(Guests)
    \/ \E u \in Guests : KickUser(u)
    \/ \E c \in Conns : KickTimer(c)
    \/ \E c \in Conns : HostConnClose(c)
    \/ \E c \in Conns : GuestOnKick(c)
    \/ \E c \in Conns : GuestConnClose(c)
    \/ \E c \in Conns : ConnDrop(c)

SpecLeave == Init /\ [][NextLeave]_vars

\* Moderation: the host mutes and unmutes a guest that has a stored profile
\* while they chat.
NextMod ==
    \/ Admission({"g1"})
    \/ HostOnMessage(<<"g1", 1>>)
    \/ \E p \in {Host, "g1"} : SendText(p)
    \/ ResendChat("g1")
    \/ ToggleMuteUser("g1")

InitMod == Start({"g1"}, {0})
SpecMod == InitMod /\ [][NextMod]_vars

\* One guest and the host: the guest's session from the dial to its end by
\* an eviction, a lost connection or a lost signaling link.
NextSession ==
    \/ CreateRoom
    \/ HostPeerOpen
    \/ JoinExisting("g1")
    \/ GuestPeerOpen("g1")
    \/ \E c \in ConnsOf({"g1"}) : HostOnConnection(c)
    \/ \E c \in ConnsOf({"g1"}) : ConnOpen(c)
    \/ \E c \in ConnsOf({"g1"}) : HostOnHandshake(c)
    \/ \E t \in historyTimers : HistoryTimer(t)
    \/ \E c \in ConnsOf({"g1"}) : GuestOnUserList(c)
    \/ \E c \in ConnsOf({"g1"}) : GuestOnMessage(c)
    \/ \E c \in ConnsOf({"g1"}) : GuestOnHistory(c)
    \/ \E t \in dialTimers["g1"] : DialTimeout("g1", t)
    \/ SignalingDrop("g1")
    \/ Heartbeat("g1")
    \/ \E c \in ConnsOf({"g1"}) : ConnDrop(c)
    \/ KickUser("g1")
    \/ \E c \in ConnsOf({"g1"}) : KickTimer(c)
    \/ \E c \in ConnsOf({"g1"}) : HostConnClose(c)
    \/ \E c \in ConnsOf({"g1"}) : GuestOnKick(c)
    \/ \E c \in ConnsOf({"g1"}) : GuestConnClose(c)

InitSession == Start({"g1"}, {0})
SpecSession == InitSession /\ [][NextSession]_vars

\* One guest and the host: the guest dials, also before the room exists and
\* while the host has lost the signaling service, and calls joinRoom again
\* when it is not in the room.
NextDial ==
    \/ CreateRoom
    \/ HostPeerOpen
    \/ JoinRoom("g1")
    \/ GuestPeerOpen("g1")
    \/ \E c \in ConnsOf({"g1"}) : HostOnConnection(c)
    \/ \E c \in ConnsOf({"g1"}) : ConnOpen(c)
    \/ \E c \in ConnsOf({"g1"}) : HostOnHandshake(c)
    \/ \E t \in historyTimers : HistoryTimer(t)
    \/ \E c \in ConnsOf({"g1"}) : GuestOnUserList(c)
    \/ \E c \in ConnsOf({"g1"}) : GuestOnMessage(c)
    \/ \E c \in ConnsOf({"g1"}) : GuestOnHistory(c)
    \/ \E c \in ConnsOf({"g1"}) : PeerUnavailable(c)
    \/ \E type \in ErrorTypes : PeerError("g1", type)
    \/ \E i \in 1..MAX_RETRIES : RetryTimer("g1", i)
    \/ \E t \in dialTimers["g1"] : DialTimeout("g1", t)
    \/ \E p \in {Host, "g1"} : SignalingDrop(p)
    \/ \E p \in {Host, "g1"} : Heartbeat(p)

InitDial == Start({"g1"}, {0})
SpecDial == InitDial /\ [][NextDial]_vars


\* Registration: one guest is admitted, its client repeats the Handshake,
\* and the connection is lost.
NextReg ==
    \/ Admission({"g1"})
    \/ ResendHandshake("g1")
    \/ \E c \in ConnsOf({"g1"}) : ConnDrop(c)
    \/ \E c \in ConnsOf({"g1"}) : HostConnClose(c)
    \/ \E c \in ConnsOf({"g1"}) : GuestConnClose(c)

SpecReg == Init /\ [][NextReg]_vars

\* Creating the room: the registration succeeds or fails, the user may call
\* createRoom again, and a guest joins the room once it exists.
NextCreate ==
    \/ Admission({"g1"})
    \/ \E type \in ErrorTypes : HostPeerError(type)

SpecCreate == Init /\ [][NextCreate]_vars

\* A second tab: guest g1 may join with the profile the host has stored,
\* guest g2 joins with its own.
NextTab ==
    \/ Admission(Guests)
    \/ RestoreProfile("g1")

SpecTab == Init /\ [][NextTab]_vars

\* The host has registered guest g and g has handled what the host sent.
Admitted(g) ==
    /\ connMapRef[g] # "none"
    /\ historyTimers = {}
    /\ \A c \in ConnsOf({g}) : toGuest[c] = <<>>

\* The kinds of message the chat screen sends.
SentTypes == {"TEXT", "IMAGE"}

\* The bot: the host and one guest with a stored profile chat, with and
\* without the bot's address token, the host mutes and unmutes the guest,
\* a Chat may be delivered twice, and responder calls settle.
NextBot ==
    \/ Admission({"g1"})
    \/ HostOnMessage(<<"g1", 1>>)
    \/ \E p \in {Host, "g1"}, content \in Contents, type \in SentTypes :
          Admitted("g1") /\ SendMessageWithin(p, content, type, MaxBotSends)
    \/ ResendChat("g1")
    \/ Admitted("g1") /\ ToggleMuteUser("g1")
    \/ \E responseText \in ResponseTexts : AiSettle(responseText)

InitBot == Start({"g1"}, {0})
SpecBot == InitBot /\ [][NextBot]_vars

\* The signaling link: the host and one guest lose it, silently or with an
\* error, and the heartbeat asks for the reconnection.
NextSignal ==
    \/ Admission({"g1"})
    \/ \E p \in {Host, "g1"} : SignalingDrop(p)
    \/ \E p \in {Host, "g1"} : SignalingError(p, "network")
    \/ \E p \in {Host, "g1"} : Heartbeat(p)

SpecSignal == Init /\ [][NextSignal]_vars

\* Two tabs of one guest: g2 may join with the profile g1 has stored, and a
\* connection may be lost.
NextTwin ==
    \/ Admission(Guests)
    \/ RestoreProfileFrom("g2", "g1")
    \/ \E c \in Conns : ConnDrop(c)
    \/ \E c \in Conns : HostConnClose(c)
    \/ \E c \in Conns : GuestConnClose(c)

SpecTwin == Init /\ [][NextTwin]_vars


\* Presence: the tabs of the host and the guests go to the background and
\* come back while the guests are admitted.
NextPresence ==
    \/ Admission(Guests)
    \/ \E p \in Procs : HandleVisibilityChange(p)
    \/ \E c \in Conns : HostOnStatus(c)

SpecPresence == Init /\ [][NextPresence]_vars

\* Typing: the host and a guest type, send and fall silent while the host
\* mutes and unmutes the guest.
NextTyping ==
    \/ Admission({"g1"})
    \/ \E p \in {Host, "g1"}, elapsed \in BOOLEAN :
          Admitted("g1") /\ HandleInputChange(p, elapsed)
    \/ \E p \in {Host, "g1"} : TypingTimer(p)
    \/ \E p \in {Host, "g1"} : HandleSendMessage(p, <<"plain", "">>)
    \/ HostOnMessage(<<"g1", 1>>)
    \/ HostOnTyping(<<"g1", 1>>)
    \/ GuestOnTyping(<<"g1", 1>>)
    \/ Admitted("g1") /\ ToggleMuteUser("g1")

InitTyping == Start({"g1"}, {0})
SpecTyping == InitTyping /\ [][NextTyping]_vars

\* The quiet period of a timer that is armed expires.
SpecTypingFair ==
    SpecTyping /\ \A p \in {Host, "g1"} : WF_vars(TypingTimer(p))

\* A guest that types after both guests have been admitted leaves: its
\* connection is lost or the host evicts it.
NextDepart ==
    \/ Admission(Guests)
    \/ \E elapsed \in BOOLEAN :
          (\A g \in Guests : Admitted(g)) /\ HandleInputChange("g1", elapsed)
    \/ TypingTimer("g1")
    \/ \E c \in Conns : HostOnTyping(c)
    \/ \E c \in Conns : GuestOnTyping(c)
    \/ inputs > 0 /\ KickUser("g1")
    \/ \E c \in ConnsOf({"g1"}) : KickTimer(c)
    \/ \E c \in ConnsOf({"g1"}) : GuestOnKick(c)
    \/ \E c \in ConnsOf({"g1"}) : inputs > 0 /\ ConnDrop(c)
    \/ \E c \in ConnsOf({"g1"}) : HostConnClose(c)
    \/ \E c \in ConnsOf({"g1"}) : GuestConnClose(c)

SpecDepart == Init /\ [][NextDepart]_vars

\* ---------------------------------------------------------------------
\* The history merge as a function: the host holds a log, guest "g1" has
\* been admitted and its replay is pending.  The HistoryChunk envelopes of
\* that replay reach the guest in any order and more than once, with live
\* Chat envelopes in between; the guest's handlers do the rest.
MergeConn == <<"g1", 1>>

\* The timestamps of the host's log: ascending, descending, all equal, equal
\* in pairs (a pair straddles every chunk boundary).
Patterns == {"asc", "desc", "same", "pairs"}
PatternTs(pat, i, n) ==
    CASE pat = "asc" -> i
      [] pat = "desc" -> n + 1 - i
      [] pat = "same" -> 1
      [] pat = "pairs" -> i \div 2

\* A log of n messages, the last one g1's `joined' notice.
LogOf(pat, n) ==
    [i \in 1..n |-> IF i = n THEN SysMsg(i, "joined", "g1", PatternTs(pat, i, n))
                    ELSE MkMsg(i, Host, <<"plain", "">>, PatternTs(pat, i, n), "TEXT")]

\* Log lengths around the chunk boundaries.
LogLens == {(k - 1) * CHUNK_SIZE + 1 : k \in 1..MaxChunks}
           \cup {k * CHUNK_SIZE : k \in 1..(MaxChunks - 1)}

\* The snapshot the pending replay will send.
Snapshot == (CHOOSE t \in historyTimers : TRUE).history

InitMerge ==
    \E pat \in Patterns, n \in LogLens, late \in BOOLEAN :
    LET snap == LogOf(pat, n)
        log == IF late THEN Append(snap, MkMsg(n + 1, Host, <<"plain", "">>, 1, "TEXT"))
               ELSE snap
    IN
    /\ status = [p \in Procs |-> IF p = "g2" THEN "idle" ELSE "connected"]
    /\ error = [p \in Procs |-> "null"]
    /\ roomId = [p \in Procs |-> IF p = "g2" THEN "null" ELSE ROOM]
    /\ users = [p \in Procs |-> IF p = Host
                                THEN <<MkUser(Host, TRUE), aiUser, MkUser("g1", FALSE)>>
                                ELSE <<>>]
    /\ messages = [p \in Procs |-> IF p = Host THEN log ELSE <<>>]
    /\ currentUser = [p \in Procs |-> IF p = "g2" THEN NoUser ELSE MkUser(p, p = Host)]
    /\ isInRoom = [p \in Procs |-> p # "g2"]
    /\ messageIdsRef = [p \in Procs |-> IF p = Host THEN Ids(log) ELSE {}]
    /\ isAiThinking = FALSE
    /\ aiCalls = 0
    /\ connectionsRef = <<MergeConn>>
    /\ connMapRef = [g \in Guests |-> IF g = "g1" THEN "g1" ELSE "none"]
    /\ closeListeners = [c \in Conns |-> IF c = MergeConn THEN <<"g1">> ELSE <<>>]
    /\ historyTimers = {[conn |-> MergeConn, history |-> snap]}
    /\ kickTimers = {}
    /\ closureUsers = <<>>
    /\ closureStatus = [g \in Guests |-> "idle"]
    /\ closureUser = [g \in Guests |-> NoUser]
    /\ peer = [p \in Procs |-> IF p = "g2" THEN "none" ELSE "open"]
    /\ heartbeat = [p \in Procs |-> p # "g2"]
    /\ joins = [g \in Guests |-> IF g = "g1" THEN 1 ELSE 0]
    /\ dials = [g \in Guests |-> IF g = "g1" THEN 1 ELSE 0]
    /\ hostConnectionRef = [g \in Guests |-> IF g = "g1" THEN 1 ELSE 0]
    /\ retryCountRef = [g \in Guests |-> 0]
    /\ retryTimers = [g \in Guests |-> <<>>]
    /\ connectionTimeoutRef = [g \in Guests |-> IF g = "g1" THEN 1 ELSE 0]
    /\ dialTimers = [g \in Guests |-> {}]
    /\ conn = [c \in Conns |-> IF c = MergeConn THEN "open" ELSE "none"]
    /\ toHost = [c \in Conns |-> <<>>]
    /\ toGuest = [c \in Conns |-> <<>>]
    /\ closeEvtH = [c \in Conns |-> FALSE]
    /\ closeEvtG = [c \in Conns |-> FALSE]
    /\ evicted = [g \in Guests |-> FALSE]
    /\ chunkSent = [k \in 1..ChunkCount(n) |-> 0]
    /\ liveSent = 0
    /\ TypingStart
    /\ nextId = n + 2
    /\ lag = [p \in Procs |-> 0]
    /\ sends = 0 /\ resends = 0 /\ toggles = 0 /\ kicks = 0 /\ drops = 0

MergeUnchanged ==
    /\ UNCHANGED <<stateVars, hostVars, guestVars, boundVars, evicted, typingVars>>
    /\ UNCHANGED <<peer, heartbeat, conn, toHost, closeEvtH, closeEvtG>>

\* HistoryChunk k of the replay reaches the guest.
DeliverChunk(k) ==
    /\ toGuest[MergeConn] = <<>>
    /\ k \in DOMAIN chunkSent
    /\ chunkSent[k] < MaxCopies
    /\ chunkSent' = [chunkSent EXCEPT ![k] = @ + 1]
    /\ toGuest' = [toGuest EXCEPT ![MergeConn] =
                      <<[type |-> "history_sync", history |-> HistoryChunks(Snapshot)[k]]>>]
    /\ UNCHANGED liveSent
    /\ MergeUnchanged

\* The messages a live Chat envelope is tried with: the first and the last
\* of the snapshot and the one accepted after it.
LiveCandidates == {1, Len(Snapshot), Len(messages[Host])}

\* Message i of the host's log reaches the guest as a live Chat envelope.
DeliverLive(i) ==
    /\ toGuest[MergeConn] = <<>>
    /\ i \in LiveCandidates
    /\ liveSent < MaxLive
    /\ liveSent' = liveSent + 1
    /\ toGuest' = [toGuest EXCEPT ![MergeConn] =
                      <<[type |-> "message", msg |-> messages[Host][i]]>>]
    /\ UNCHANGED chunkSent
    /\ MergeUnchanged

NextMerge ==
    \/ \E k \in 1..MaxChunks : DeliverChunk(k)
    \/ \E i \in 1..(MaxChunks * CHUNK_SIZE) : DeliverLive(i)
    \/ GuestOnHistory(MergeConn)
    \/ GuestOnMessage(MergeConn)

SpecMerge == InitMerge /\ [][NextMerge]_vars


\* The replay of snapshots of the lengths of LogLens: the timer fires while
\* the guest's connection is open or after it was lost.
NextChunk ==
    \/ \E t \in historyTimers : HistoryTimer(t)
    \/ ConnDrop(MergeConn)
    \/ GuestOnHistory(MergeConn)

SpecChunk == InitMerge /\ [][NextChunk]_vars

\* The chat relay with the scheduling the runtime gives: an event that is
\* due (a queued envelope on an open channel, a signaling or channel 'open',
\* an expired timer) is handled; what the users do is up to them.
Handled ==
    \/ HostPeerOpen
    \/ \E g \in Guests : GuestPeerOpen(g)
    \/ \E c \in Conns : HostOnConnection(c) \/ ConnOpen(c) \/ HostOnHandshake(c)
    \/ \E t \in historyTimers : HistoryTimer(t)
    \/ \E c \in Conns : HostOnMessage(c)
    \/ \E c \in Conns : GuestOnUserList(c) \/ GuestOnMessage(c) \/ GuestOnHistory(c)

\* Guest g joins once "g1" has been admitted.
JoinLater(g) == connMapRef["g1"] # "none" /\ JoinExisting(g)

\* "g1" joins and sends a Chat message; "g2" joins at any time after "g1"
\* has been admitted, before or after the message or while it is under way.
NextLive ==
    \/ CreateRoom
    \/ JoinExisting("g1")
    \/ JoinLater("g2")
    \/ SendText("g1")
    \/ Handled

InitLive == Start({}, {0})
SpecLive == InitLive /\ [][NextLive]_vars /\ WF_vars(Handled)

\* ------------------------------------------------------------ properties

\* C1: at the host and at every guest the message log never holds two
\* messages with the same id, whatever the interleaving of local sends,
\* relayed Chat envelopes, echoes, HistoryChunk envelopes and repeated
\* deliveries.
C1_NoDuplicateIds == \A p \in Procs : NoDup(messages[p])

\* A Chat of a guest has been sent to the host twice, relayed twice, and
\* everything has been handled by both admitted guests.
C1_Witness ==
    /\ resends > 0
    /\ historyTimers = {}
    /\ \A c \in Conns : toHost[c] = <<>> /\ toGuest[c] = <<>>
    /\ \A g \in Guests : connMapRef[g] # "none" /\ Len(messages[g]) >= 3

\* C2: ingesting a message twice - twice as a live Chat envelope, or once
\* live and once inside a HistoryChunk, in either order - leaves the ids and
\* the log that ingesting it once leaves, and the log holds it once.
C2_Idempotent ==
    LET ids == messageIdsRef["g1"]
        log == messages["g1"]
        chunks == HistoryChunks(Snapshot)
    IN  \A i \in LiveCandidates :
           LET m == messages[Host][i]
               live == AddMessage(ids, log, m)
           IN  /\ AddMessage(live[1], live[2], m) = live
               /\ Count(m.id, live[2]) = 1
               /\ \A k \in DOMAIN chunks :
                     m.id \in Ids(chunks[k]) =>
                        LET chunk == SyncHistory(ids, log, chunks[k])
                        IN  /\ AddMessage(chunk[1], chunk[2], m) = chunk
                            /\ SyncHistory(live[1], live[2], chunks[k]) = chunk
                            /\ SyncHistory(chunk[1], chunk[2], chunks[k]) = chunk
                            /\ Count(m.id, chunk[2]) = 1

\* Every chunk of a replay of more than one chunk has been merged and a
\* message of the replay has been ingested live as well.
C2_Witness ==
    /\ liveSent > 0
    /\ Len(messages[Host]) = Len(Snapshot)
    /\ \A k \in DOMAIN chunkSent : chunkSent[k] > 0
    /\ toGuest[MergeConn] = <<>>
    /\ Len(messages["g1"]) > CHUNK_SIZE

\* A step in which the host handles the Chat envelope at the head of the
\* queue of connection c.
HostHandlesChat(c) ==
    /\ conn[c] = "open"
    /\ toHost[c] # <<>>
    /\ Head(toHost[c]).type = "message"
    /\ toHost'[c] = Tail(toHost[c])

\* C3: once the host has muted P, a Chat envelope authored by P that the
\* host receives is neither appended to the host's log nor broadcast.
C3_MutedChatDropped ==
    [][\A c \in Conns :
          (HostHandlesChat(c) /\ IsMutedIn(users[Host], Head(toHost[c]).msg.senderId))
          => (messages'[Host] = messages[Host] /\ toGuest' = toGuest)]_vars

\* C4: a Chat envelope of a muted author is dropped by the host and its id
\* is recorded in the host's dedup cache all the same; an envelope whose id
\* is in the cache is neither appended nor relayed when it is delivered again.
C4_DroppedChatRecorded ==
    [][\A c \in Conns :
          HostHandlesChat(c) =>
             LET m == Head(toHost[c]).msg
             IN  /\ IsMutedIn(users[Host], m.senderId) =>
                       /\ m.id \in messageIdsRef'[Host]
                       /\ messages'[Host] = messages[Host]
                       /\ toGuest' = toGuest
                 /\ m.id \in messageIdsRef[Host] =>
                       /\ messages'[Host] = messages[Host]
                       /\ toGuest' = toGuest]_vars

\* C5: whatever the order in which the HistoryChunk envelopes of a host log
\* arrive and however often each arrives, the guest's log after all of them
\* have been merged is the host log sorted by timestamp, also when several
\* messages carry the same timestamp.
C5_MergeEqualsSortedLog ==
    (/\ liveSent = 0
     /\ chunkSent # <<>>
     /\ \A k \in DOMAIN chunkSent : chunkSent[k] > 0
     /\ toGuest[MergeConn] = <<>>)
    => messages["g1"] = SortByTs(Snapshot)

\* C6: when the connection of an admitted participant P closes, the host's
\* roster becomes the roster before without P, every other entry unchanged;
\* exactly one System message announcing that P left is appended to the
\* host's log, and the new roster and that message are sent on the
\* connections that remain open and on no other.
C6_OneRosterDelta ==
    [][\A c \in Conns :
          (closeEvtH[c] /\ ~closeEvtH'[c] /\ Len(closeListeners[c]) = 1) =>
             LET P == closeListeners[c][1]
                 n == Len(messages[Host])
                 left == messages'[Host][n + 1]
             IN  /\ users'[Host] = SelectSeq(users[Host], LAMBDA u : u.id # P)
                 /\ Len(messages'[Host]) = n + 1
                 /\ SubSeq(messages'[Host], 1, n) = messages[Host]
                 /\ left.type = "SYSTEM" /\ left.content = <<"left", P>>
                 /\ left.id \notin Ids(messages[Host])
                 /\ \A d \in Conns :
                       LET k == Len(toGuest[d])
                           sent == SubSeq(toGuest'[d], k + 1, Len(toGuest'[d]))
                       IN  /\ SubSeq(toGuest'[d], 1, k) = toGuest[d]
                           /\ IF d \in Range(connectionsRef) /\ conn[d] = "open"
                              THEN /\ Len(sent) = 2
                                   /\ \E j \in 1..2 :
                                         /\ sent[j].type = "user_list_update"
                                         /\ sent[j].users = users'[Host]
                                         /\ sent[3 - j].type = "message"
                                         /\ sent[3 - j].msg = left
                              ELSE sent = <<>>]_vars

\* The connection of an admitted guest has closed without an eviction, the
\* host has handled it, and the other guest is still connected.
C6_Witness ==
    /\ kicks = 0
    /\ \E c \in Conns :
          /\ conn[c] = "closed" /\ ~closeEvtH[c] /\ Len(closeListeners[c]) = 1
          /\ \E i \in DOMAIN messages[Host] :
                messages[Host][i].content = <<"left", closeListeners[c][1]>>
          /\ \A u \in Range(users[Host]) : u.id # closeListeners[c][1]
    /\ \E d \in Conns : conn[d] = "open" /\ Len(closeListeners[d]) = 1

\* C7: a guest that has received an Eviction envelope has status Kicked and
\* the reason as its error, its host connection is closed, and it never
\* dials again (only joinRoom, which the guest's user calls, may).
C7_NoDialAfterEviction ==
    [][\A c \in Conns :
          LET g == c[1] IN
          /\ (GuestHas(c, "kick_notification") /\ evicted'[g] /\ ~evicted[g]) =>
                /\ status'[g] = "kicked"
                /\ error'[g] = Head(toGuest[c]).reason
                /\ hostConnectionRef[g] # 0 =>
                      conn'[<<g, hostConnectionRef[g]>>] = "closed"
          /\ (evicted[g] /\ joins'[g] = joins[g]) => dials'[g] = dials[g]]_vars

\* C8: once the status of a guest's session is Error or Kicked, nothing but
\* a new joinRoom changes it.
C8_TerminalStatus ==
    [][\A g \in Guests :
          (status[g] \in {"error", "kicked"} /\ joins'[g] = joins[g])
          => status'[g] = status[g]]_vars

\* The 'peer unavailable' failures of the dials of the current joinRoom.
Failures(g) == Cardinality({c \in Conns : c[1] = g /\ conn[c] = "failed"})

\* C9: within one joinRoom each of the first three consecutive 'peer
\* unavailable' failures schedules exactly one new dial and does not touch
\* the status; the fourth sets the status to Error and schedules nothing.
C9_RetryBound ==
    [][\A c \in Conns :
          (conn[c] = "dialing" /\ conn'[c] = "failed") =>
             LET g == c[1] IN
             IF Failures(g) < MAX_RETRIES
             THEN /\ Len(retryTimers'[g]) = Len(retryTimers[g]) + 1
                  /\ status'[g] = status[g]
             ELSE /\ retryTimers'[g] = retryTimers[g]
                  /\ status'[g] = "error"]_vars

\* Guest g has sent the Chat message with id i.
SentChat(g, i) ==
    \E k \in DOMAIN messages[g] :
       /\ messages[g][k].id = i
       /\ messages[g][k].type = "TEXT"
       /\ messages[g][k].senderId = currentUser[g].id

\* The Chat message with id i of guest g is once in the log of the host, of
\* g and of every other guest the host has admitted.
Delivered(g, i) ==
    /\ Count(i, messages[Host]) = 1
    /\ Count(i, messages[g]) = 1
    /\ \A o \in Guests \ {g} : connMapRef[o] # "none" => Count(i, messages[o]) = 1

\* C10: a Chat message sent by a connected, unmuted guest is eventually in
\* the log of the host and of every other admitted guest, once in each, and
\* once in the sender's own log although the host echoes it back.
C10_ChatDelivered ==
    (sends > 0) ~> [](\A g \in Guests : \A i \in 1..MaxMsgIds :
                         SentChat(g, i) => Delivered(g, i))

\* Both guests are admitted, one has sent a Chat message, and it has reached
\* everybody with nothing left in flight.
C10_Witness ==
    /\ \A c \in Conns : toHost[c] = <<>> /\ toGuest[c] = <<>>
    /\ historyTimers = {}
    /\ \A g \in Guests : connMapRef[g] # "none"
    /\ \E g \in Guests : \E i \in 1..MaxMsgIds : SentChat(g, i) /\ Delivered(g, i)

\* A step in which the host calls sendMessage.
HostSendsChat ==
    /\ sends' = sends + 1
    /\ Len(messages'[Host]) = Len(messages[Host]) + 1

C12_DuplicateDiscarded ==
    [][\A c \in Conns :
          (HostHandlesChat(c) /\ Head(toHost[c]).msg.id \in messageIdsRef[Host]) =>
             /\ messages'[Host] = messages[Host]
             /\ messageIdsRef'[Host] = messageIdsRef[Host]
             /\ toGuest' = toGuest
             /\ aiCalls' = aiCalls
             /\ isAiThinking' = isAiThinking]_vars

\* The messages of a sequence of HistoryChunk envelopes, in order.
RECURSIVE ReplayedMessages(_)
ReplayedMessages(envs) ==
    IF envs = <<>> THEN <<>>
    ELSE Head(envs).history \o ReplayedMessages(Tail(envs))

\* The `joined' notices about user uid in a log.
JoinedNotices(log, uid) ==
    {k \in DOMAIN log : log[k].type = "SYSTEM" /\ log[k].content = <<"joined", uid>>}

\* The replay of connection c has been sent and the guest has merged it.
ReplayDone(c) ==
    /\ conn[c] = "open"
    /\ Len(closeListeners[c]) = 1
    /\ \A t \in historyTimers : t.conn # c
    /\ \A k \in DOMAIN toGuest[c] : toGuest[c][k].type # "history_sync"

\* C13: the history replay for a newly admitted guest is sent when the
\* host's log already holds the `joined' notice of that admission, the
\* replayed messages hold that notice exactly once, and after the replay the
\* guest's log holds its own arrival notice exactly once.
C13_ReplayAfterJoined ==
    /\ [][\A t \in historyTimers :
             (t \notin historyTimers' /\ conn[t.conn] = "open") =>
                LET c == t.conn
                    sent == SubSeq(toGuest'[c], Len(toGuest[c]) + 1, Len(toGuest'[c]))
                    joined == JoinedNotices(messages[Host], connMapRef[c[1]])
                IN  /\ \A k \in DOMAIN sent : sent[k].type = "history_sync"
                    /\ Cardinality(joined) = 1
                    /\ \A k \in joined :
                          Count(messages[Host][k].id, ReplayedMessages(sent)) = 1]_vars
    /\ [](\A c \in Conns :
             ReplayDone(c) =>
                Cardinality(JoinedNotices(messages[c[1]], connMapRef[c[1]])) = 1)

\* Both guests have been admitted and have merged their replays; the second
\* one was sent its own notice live and in the replay.
C13_Witness ==
    /\ \A g \in Guests : \E c \in Conns : c[1] = g /\ ReplayDone(c)
    /\ \A c \in Conns : toGuest[c] = <<>>
    /\ \A g \in Guests : Len(messages[g]) >= 2

\* A step in which the host handles a Handshake on connection c.
HostHandlesHandshake(c) ==
    /\ conn[c] = "open"
    /\ toHost[c] # <<>>
    /\ Head(toHost[c]).type = "handshake"
    /\ toHost'[c] = Tail(toHost[c])

\* C14: a Handshake on a connection that is already registered adds no
\* roster entry, no `joined' notice, no history replay and no close
\* listener, so that the later close of the connection is announced once.
C14_RegistrationIdempotent ==
    [][/\ \A c \in Conns :
             (HostHandlesHandshake(c) /\ closeListeners[c] # <<>>) =>
                /\ users'[Host] = users[Host]
                /\ messages'[Host] = messages[Host]
                /\ historyTimers' = historyTimers
                /\ closeListeners' = closeListeners
       /\ \A c \in Conns :
             (closeEvtH[c] /\ ~closeEvtH'[c]) =>
                Len(messages'[Host]) <= Len(messages[Host]) + 1]_vars

\* A step in which the guest of connection c handles a RosterUpdate or a
\* HistoryChunk.
GuestHandlesAck(c) ==
    /\ conn[c] = "open"
    /\ toGuest[c] # <<>>
    /\ Head(toGuest[c]).type \in {"user_list_update", "history_sync"}
    /\ toGuest'[c] = Tail(toGuest[c])

\* C15: a guest's status becomes Connected only in a step in which it
\* handles a RosterUpdate or a HistoryChunk from the host.
C15_ConnectedAfterAck ==
    [][\A g \in Guests :
          (status[g] # "connected" /\ status'[g] = "connected") =>
             \E c \in Conns : c[1] = g /\ GuestHandlesAck(c)]_vars

\* C16: createRoom sets the status Connecting with the creator first in the
\* roster as its only Host; the success of the registration sets the status
\* Connected with the assigned address as roomId; a failure of the
\* registration sets the status Error with an error text, and the session
\* whose registration failed is not Connected.
C16_CreateRoomOutcome ==
    /\ [][/\ (peer[Host] \in {"none", "failed"} /\ peer'[Host] = "connecting") =>
                /\ status'[Host] = "connecting"
                /\ users'[Host][1] = MkUser(Host, TRUE)
                /\ currentUser'[Host] = users'[Host][1]
                /\ \A k \in DOMAIN users'[Host] : users'[Host][k].isHost <=> k = 1
          /\ (peer[Host] = "connecting" /\ peer'[Host] = "open" /\ ~heartbeat[Host]) =>
                /\ status'[Host] = "connected"
                /\ roomId'[Host] = ROOM
          /\ (peer[Host] = "connecting" /\ peer'[Host] = "failed") =>
                /\ status'[Host] = "error"
                /\ error'[Host] # "null"]_vars
    /\ [](peer[Host] = "failed" => status[Host] = "error" /\ error[Host] # "null")

\* The registration failed, createRoom was called again and succeeded.
C16_Witness ==
    /\ error[Host] = "Host Error: network"
    /\ status[Host] = "connected"
    /\ roomId[Host] = ROOM

\* The channel of guest g to the host is open.
ChannelOpen(g) ==
    /\ hostConnectionRef[g] # 0
    /\ conn[<<g, hostConnectionRef[g]>>] = "open"

\* C17: a dial-timeout timer that fires moves the guest to Error when its
\* channel to the host has not opened, and leaves the status of a guest
\* whose channel is open as it is, also when the timer was started by an
\* earlier joinRoom call.
C17_DialTimeoutOnlyUnopened ==
    [][\A g \in Guests :
          (dialTimers'[g] # dialTimers[g] /\ dialTimers'[g] \subseteq dialTimers[g] /\ conn' = conn) =>
             IF ChannelOpen(g)
             THEN status'[g] = status[g] /\ error'[g] = error[g]
             ELSE status'[g] = "error"]_vars

\* C18: a failure of a class other than 'peer-unavailable' sets the guest's
\* status to Error in the step in which it is reported, with an error text
\* that names the class, and schedules no retry and no dial, whatever
\* retryCountRef holds.
C18_OtherFailureNoRetry ==
    [][\A g \in Guests :
          (peer[g] = "connecting" /\ peer'[g] = "failed") =>
             /\ status'[g] = "error"
             /\ \E type \in ErrorTypes : error'[g] = "Connection Error: " \o type
             /\ retryTimers'[g] = retryTimers[g]
             /\ retryCountRef'[g] = retryCountRef[g]
             /\ dials'[g] = dials[g]]_vars

\* The failure was reported to a guest whose retry count was not zero.
C18_Witness ==
    \E g \in Guests :
       /\ peer[g] = "failed"
       /\ retryCountRef[g] > 0
       /\ status[g] = "error"
       /\ error[g] = "Connection Error: unavailable-id"

\* The envelopes appended to the queue of connection d in this step.
NewlySent(d) == SubSeq(toGuest'[d], Len(toGuest[d]) + 1, Len(toGuest'[d]))

\* C19: the step in which the host evicts P removes P from the roster,
\* appends the `left' System message for P and sends the new roster and that
\* message on every open connection, together with the Eviction envelope on
\* P's connection, while that connection is still as it was and nothing
\* from P has been handled.
C19_EvictionImmediate ==
    [][kicks' = kicks + 1 =>
          \E target \in AdminTargets :
             LET left == messages'[Host][Len(messages'[Host])]
                 i == FindConn(target)
             IN  /\ users'[Host] = SelectSeq(users[Host], LAMBDA u : u.id # target)
                 /\ Len(messages'[Host]) = Len(messages[Host]) + 1
                 /\ left.type = "SYSTEM" /\ left.content = <<"left", target>>
                 /\ \A d \in Conns :
                       (d \in Range(connectionsRef) /\ conn[d] = "open") =>
                          /\ \E k \in DOMAIN NewlySent(d) :
                                /\ NewlySent(d)[k].type = "user_list_update"
                                /\ NewlySent(d)[k].users = users'[Host]
                          /\ \E k \in DOMAIN NewlySent(d) :
                                /\ NewlySent(d)[k].type = "message"
                                /\ NewlySent(d)[k].msg = left
                 /\ (i # 0 /\ conn[connectionsRef[i]] = "open") =>
                       NewlySent(connectionsRef[i])[1].type = "kick_notification"
                 /\ conn' = conn
                 /\ toHost' = toHost
                 /\ closeEvtH' = closeEvtH]_vars

\* P has been evicted: the host's roster and log show it while the Eviction
\* envelope is still on its way and P's connection is open.
C19_Witness ==
    \E c \in Conns :
       /\ kicks > 0
       /\ conn[c] = "open"
       /\ c \in kickTimers
       /\ \E k \in DOMAIN toGuest[c] : toGuest[c][k].type = "kick_notification"
       /\ FindIndex(users[Host], c[1]) = 0
       /\ JoinedNotices(messages[Host], c[1]) # {}
       /\ \E k \in DOMAIN messages[Host] : messages[Host][k].content = <<"left", c[1]>>

\* C20: the roster of a host session holds exactly one entry with role
\* Host, and that entry is the room creator.
C20_OneHostEntry ==
    users[Host] # <<>> =>
       /\ Cardinality({k \in DOMAIN users[Host] : users[Host][k].isHost}) = 1
       /\ \A k \in DOMAIN users[Host] :
             users[Host][k].isHost => users[Host][k].id = currentUser[Host].id

\* C21: the host's roster never holds two entries with the same participant
\* id, also after a Handshake from an id that is already in the roster.
C21_RosterUniqueById ==
    \A i, j \in DOMAIN users[Host] :
       users[Host][i].id = users[Host][j].id => i = j

\* The host has handled a Handshake whose id was already in its roster (the
\* second tab with the host's profile) and one with a new id.
C21_Witness ==
    /\ connMapRef["g1"] = currentUser[Host].id
    /\ connMapRef["g2"] = "g2"
    /\ Len(users[Host]) = 3

\* The BotReply messages of a log.
BotReplies(log) == {k \in DOMAIN log : log[k].type = "AI"}

\* A step in which the host's responder is invoked.
ResponderInvoked == aiCalls' > aiCalls

\* A step in which a responder call settles.
ResponderSettled == aiCalls' < aiCalls

\* C22: the responder is invoked only by the host, once per step, for a
\* Text message with the bot's address token that the host has accepted and
\* whose author the host has not muted; a BotReply first appears in the
\* host's log, in a step in which a call settles, and that step appends one
\* BotReply and sends it on every open registered connection.
C22_BotReplyOnlyFromTrigger ==
    /\ [][ResponderInvoked =>
             /\ aiCalls' = aiCalls + 1
             /\ \/ /\ HostSendsChat
                   /\ LET sent == messages'[Host][Len(messages'[Host])]
                      IN  sent.type = "TEXT" /\ Mentions(sent.content)
                \/ \E c \in Conns :
                      /\ HostHandlesChat(c)
                      /\ LET msg == Head(toHost[c]).msg
                         IN  /\ msg.type = "TEXT" /\ Mentions(msg.content)
                             /\ msg.id \in Ids(messages'[Host])
                             /\ ~IsMutedIn(users[Host], msg.senderId)]_vars
    /\ [][ResponderSettled =>
             /\ aiCalls' = aiCalls - 1
             /\ Len(messages'[Host]) <= Len(messages[Host]) + 1
             /\ \A k \in DOMAIN messages'[Host] :
                   k > Len(messages[Host]) =>
                      /\ messages'[Host][k].type = "AI"
                      /\ \A d \in Conns :
                            (d \in Range(connectionsRef) /\ conn[d] = "open") =>
                               toGuest'[d] = Append(toGuest[d],
                                  [type |-> "message", msg |-> messages'[Host][k]])]_vars
    /\ [][Cardinality(BotReplies(messages'[Host])) > Cardinality(BotReplies(messages[Host]))
             => ResponderSettled]_vars
    /\ [](\A g \in Guests : \A k \in BotReplies(messages[g]) :
             messages[g][k].id \in Ids(messages[Host]))

\* C23: a responder call that fails leaves no BotReply behind: no log and
\* no envelope in flight holds a BotReply made from the text a failed call
\* resolves to.
C23_NoReplyOnFailure ==
    /\ \A p \in Procs : \A k \in BotReplies(messages[p]) :
          messages[p][k].content # Apology
    /\ \A c \in Conns : \A k \in DOMAIN toGuest[c] :
          toGuest[c][k].type = "message" =>
             ~(toGuest[c][k].msg.type = "AI" /\ toGuest[c][k].msg.content = Apology)

\* C24: while responder calls are pending the host accepts and relays a
\* Chat it has not seen in the step in which it handles it; the host's log
\* never holds an id twice and never loses a message; and every call that
\* settles adds exactly one BotReply.
C24_ConcurrentCalls ==
    /\ [](NoDup(messages[Host]))
    /\ [][\A k \in DOMAIN messages[Host] :
             k \in DOMAIN messages'[Host] /\ messages'[Host][k] = messages[Host][k]]_vars
    /\ [][\A c \in Conns :
             (/\ aiCalls > 0
              /\ HostHandlesChat(c)
              /\ Head(toHost[c]).msg.id \notin messageIdsRef[Host]) =>
                 /\ messages'[Host] = Append(messages[Host], Head(toHost[c]).msg)
                 /\ \A d \in Conns :
                       (d \in Range(connectionsRef) /\ conn[d] = "open") =>
                          toGuest'[d] = Append(toGuest[d], Head(toHost[c]))]_vars
    /\ [][ResponderSettled =>
             Cardinality(BotReplies(messages'[Host])) =
                Cardinality(BotReplies(messages[Host])) + 1]_vars

\* Two calls were pending at once and both have settled: in the host's log
\* the two messages that address the bot come before the two BotReplies.
C24_Witness ==
    /\ aiCalls = 0
    /\ Cardinality(BotReplies(messages[Host])) = 2
    /\ \E i, j \in DOMAIN messages[Host] :
          /\ i < j
          /\ messages[Host][i].type = "TEXT" /\ Mentions(messages[Host][i].content)
          /\ messages[Host][j].type = "TEXT" /\ Mentions(messages[Host][j].content)
          /\ messages[Host][i].senderId # messages[Host][j].senderId
          /\ \A k \in BotReplies(messages[Host]) : j < k

\* The guest of connection c has handled the close of c, which came without
\* an Eviction, and shows that the host left.
HostLeft(g) == ~evicted[g] /\ status[g] = "error" /\ error[g] = "Host disconnected."

\* C25: when the connection of a guest to the host closes and the guest has
\* received no Eviction, its status becomes Error with the error text that
\* the host left, and from then on the guest dials nobody.
C25_HostLeftIsTerminal ==
    [][\A g \in Guests :
          /\ \A c \in ConnsOf({g}) :
                (closeEvtG[c] /\ ~closeEvtG'[c] /\ ~evicted[g]) =>
                   status'[g] = "error" /\ error'[g] = "Host disconnected."
          /\ HostLeft(g) => dials'[g] = dials[g]]_vars

\* C26: a session that is Connected stays Connected in the step in which
\* its Peer loses the link to the signaling service while its peer
\* connections stay as they are.
C26_SignalingLossNotFatal ==
    [][\A p \in Procs :
          (/\ status[p] = "connected"
           /\ peer[p] = "open" /\ peer'[p] = "disconnected"
           /\ conn' = conn) =>
              status'[p] = "connected"]_vars

\* C27: the replay of a snapshot of n messages sends, to the new guest's
\* connection only, ceil(n / CHUNK_SIZE) HistoryChunk envelopes of at most
\* CHUNK_SIZE messages each whose concatenation in send order is the
\* snapshot, and sends nothing when that connection is not open.
C27_ChunkedReplay ==
    [][\A t \in historyTimers :
          t \notin historyTimers' =>
             LET n == Len(t.history)
                 sent == NewlySent(t.conn)
             IN  /\ \A d \in Conns \ {t.conn} : toGuest'[d] = toGuest[d]
                 /\ IF conn[t.conn] = "open"
                    THEN /\ Len(sent) * CHUNK_SIZE >= n
                         /\ (Len(sent) - 1) * CHUNK_SIZE < n
                         /\ \A k \in DOMAIN sent :
                               /\ sent[k].type = "history_sync"
                               /\ Len(sent[k].history) <= CHUNK_SIZE
                         /\ ReplayedMessages(sent) = t.history
                    ELSE toGuest' = toGuest]_vars

\* A snapshot of 2 * CHUNK_SIZE + 1 messages has been sent as three chunks,
\* the last of one message.
C27_Witness ==
    /\ historyTimers = {}
    /\ Len(toGuest[MergeConn]) = 3
    /\ \A k \in 1..3 : toGuest[MergeConn][k].type = "history_sync"
    /\ Len(toGuest[MergeConn][3].history) = 1
    /\ Len(toGuest[MergeConn][1].history) = CHUNK_SIZE

\* C28: the merge of a HistoryChunk removes nothing from the guest's log:
\* every message the log held before the merge is in the log after it,
\* exactly once.
C28_MergeKeepsLocal ==
    [][\A c \in Conns :
          (GuestHas(c, "history_sync") /\ toGuest'[c] = Tail(toGuest[c])) =>
             \A k \in DOMAIN messages[c[1]] :
                /\ Count(messages[c[1]][k].id, messages'[c[1]]) = 1
                /\ \E j \in DOMAIN messages'[c[1]] :
                      messages'[c[1]][j] = messages[c[1]][k]]_vars

\* The guest holds the Chat the host accepted after the snapshot, which
\* reached it live, together with the whole replay.
C28_Witness ==
    /\ liveSent > 0
    /\ Len(messages[Host]) > Len(Snapshot)
    /\ messages[Host][Len(messages[Host])].id \in Ids(messages["g1"])
    /\ \A k \in DOMAIN chunkSent : chunkSent[k] > 0
    /\ toGuest[MergeConn] = <<>>
    /\ Len(messages["g1"]) = Len(messages[Host])
    /\ Len(Snapshot) > CHUNK_SIZE

OnlyMuteFlipped(before, after, target) ==
    /\ DOMAIN after = DOMAIN before
    /\ \E i \in DOMAIN before : before[i].id = target
    /\ \A i \in DOMAIN before :
          IF before[i].id = target
          THEN after[i] = [before[i] EXCEPT !.isMuted = ~before[i].isMuted]
          ELSE after[i] = before[i]

\* C30: a step in which the host toggles the mute of P flips the muted flag
\* of P's roster entry and changes nothing else in the roster, sends the new
\* roster on every open registered connection, and closes no connection
\* and schedules no close; a roster is restored by the second of two
\* toggles of P.
C30_ToggleMuteFrame ==
    /\ [][toggles' = toggles + 1 =>
             /\ \E target \in AdminTargets : OnlyMuteFlipped(users[Host], users'[Host], target)
             /\ \A d \in Conns :
                   IF d \in Range(connectionsRef) /\ conn[d] = "open"
                   THEN toGuest'[d] = Append(toGuest[d],
                           [type |-> "user_list_update", users |-> users'[Host]])
                   ELSE toGuest'[d] = toGuest[d]
             /\ conn' = conn
             /\ closeEvtH' = closeEvtH /\ closeEvtG' = closeEvtG
             /\ kickTimers' = kickTimers
             /\ connectionsRef' = connectionsRef
             /\ messages' = messages]_vars
    /\ [][(toggles = 1 /\ toggles' = 2) =>
             \A k \in DOMAIN users'[Host] : ~users'[Host][k].isMuted]_vars

\* The host has muted and unmuted the guest, whose connection is open and
\* was sent both rosters.
C30_Witness ==
    /\ toggles = 2
    /\ FindIndex(users[Host], "g1") # 0
    /\ ~IsMutedIn(users[Host], "g1")
    /\ conn[<<"g1", 1>>] = "open"
    /\ ~currentUser["g1"].isMuted
    /\ toGuest[<<"g1", 1>>] = <<>>
    /\ Len(users["g1"]) = 3

\* A step in which the liveness check of process p asks for a reconnection
\* to the signaling service.
ReconnectRequested(p) == heartbeat[p] /\ peer[p] # "connecting" /\ peer'[p] = "connecting"

\* C34: the liveness check asks for a reconnection only when the Peer has
\* lost the signaling link and has not been given up, and the step in which
\* it asks dials nobody and changes no peer connection.
C34_HeartbeatOnlyReconnects ==
    [][\A p \in Procs :
          ReconnectRequested(p) =>
             /\ peer[p] = "disconnected"
             /\ conn' = conn
             /\ dials' = dials
             /\ hostConnectionRef' = hostConnectionRef
             /\ toHost' = toHost /\ toGuest' = toGuest]_vars

\* The guest's liveness check has asked for a reconnection and the guest
\* has dialled once.
C34_Witness ==
    /\ heartbeat["g1"]
    /\ peer["g1"] = "connecting"
    /\ dials["g1"] = 1
    /\ conn[<<"g1", 1>>] = "open"

\* The `left' notices about user uid in a log.
LeftNotices(log, uid) ==
    {k \in DOMAIN log : log[k].type = "SYSTEM" /\ log[k].content = <<"left", uid>>}

\* C35: a participant that was admitted once and left once, by eviction or
\* otherwise, is announced as having left at most once in the host's log.
C35_OneLeftPerEviction ==
    \A g \in Guests : Cardinality(LeftNotices(messages[Host], g)) <= 1

\* C36: a participant that has not been evicted and has an open connection
\* on which the host has handled its Handshake is in the host's roster.
C36_RegisteredInRoster ==
    \A c \in Conns :
       (conn[c] = "open" /\ closeListeners[c] # <<>> /\ kicks = 0) =>
          FindIndex(users[Host], closeListeners[c][1]) # 0

\* C37: a call of joinRoom starts with no `peer unavailable' retry used.
C37_FreshRetryBudget ==
    [][\A g \in Guests : joins'[g] # joins[g] => retryCountRef'[g] = 0]_vars

\* C38: the `responder is working' flag is set exactly while a call of the
\* responder is pending.
C38_ThinkingWhilePending ==
    isAiThinking <=> aiCalls > 0

\* A guest handles a RosterUpdate in which its own entry is muted.
HandlesMutedRoster(c) ==
    /\ GuestHas(c, "user_list_update")
    /\ toGuest'[c] = Tail(toGuest[c])
    /\ users'[c[1]] = Head(toGuest[c]).users
    /\ currentUser[c[1]] # NoUser
    /\ IsMutedIn(Head(toGuest[c]).users, currentUser[c[1]].id)

\* C39: after a guest has handled a RosterUpdate in which its own entry is
\* muted, its local muted flag is set.
C39_MutedFlagFollowsRoster ==
    [][\A c \in Conns : HandlesMutedRoster(c) => currentUser'[c[1]].isMuted]_vars

\* The host's roster after the step is the one before it with the presence
\* of uid set to st, and it has been sent on every open connection the
\* host has registered; no log and no dedup cache has changed.
PresenceApplied(uid, st) ==
    /\ Len(users'[Host]) = Len(users[Host])
    /\ \A i \in DOMAIN users[Host] :
          /\ users'[Host][i].id = users[Host][i].id
          /\ users'[Host][i].isHost = users[Host][i].isHost
          /\ users'[Host][i].isMuted = users[Host][i].isMuted
          /\ users'[Host][i].status =
                IF users[Host][i].id = uid THEN st ELSE users[Host][i].status
    /\ messages' = messages
    /\ messageIdsRef' = messageIdsRef
    /\ \A c \in Conns :
          toGuest'[c] =
             IF c \in Range(connectionsRef) /\ conn[c] = "open"
             THEN Append(toGuest[c], [type |-> "user_list_update", users |-> users'[Host]])
             ELSE toGuest[c]

\* Process p, connected, goes to the background or comes back.
Transition(p) ==
    /\ hidden'[p] # hidden[p]
    /\ currentUser[p] # NoUser
    /\ status[p] = "connected"

\* C31: a PresenceUpdate handled by the host, or the host's own transition,
\* sets the presence of the named participant in the host's roster, leaves
\* the rest of the roster and the logs as they were and sends the roster to
\* every connection; a guest's transition sends one PresenceUpdate to the
\* host and nothing else, and a guest's roster changes only by a RosterUpdate.
C31_PresencePropagation ==
    [][/\ \A c \in Conns :
             (/\ conn[c] = "open" /\ toHost[c] # <<>>
              /\ Head(toHost[c]).type = "status_update"
              /\ toHost'[c] = Tail(toHost[c])) =>
                PresenceApplied(Head(toHost[c]).userId, Head(toHost[c]).status)
       /\ Transition(Host) =>
             PresenceApplied(currentUser[Host].id, IF hidden'[Host] THEN "away" ELSE "online")
       /\ \A g \in Guests :
             /\ Transition(g) =>
                   /\ users' = users /\ messages' = messages /\ toGuest' = toGuest
                   /\ \A c \in Conns :
                         toHost'[c] =
                            IF c = <<g, hostConnectionRef[g]>> /\ conn[c] = "open"
                            THEN Append(toHost[c],
                                        [type |-> "status_update",
                                         userId |-> currentUser[g].id,
                                         status |-> IF hidden'[g] THEN "away" ELSE "online"])
                            ELSE toHost[c]
             /\ users'[g] # users[g] =>
                   \E c \in ConnsOf({g}) :
                      /\ GuestHas(c, "user_list_update")
                      /\ users'[g] = Head(toGuest[c]).users]_vars

C31_Witness ==
    /\ \E i \in DOMAIN users[Host] :
          users[Host][i].id = "g1" /\ users[Host][i].status = "away"
    /\ \E i \in DOMAIN users["g2"] :
          users["g2"][i].id = "g1" /\ users["g2"][i].status = "away"
    /\ \E i \in DOMAIN users["g1"] :
          users["g1"][i].id = Host /\ users["g1"][i].status = "away"

\* No name occurs twice in a typing set.
NoRepeat(s) == \A i, j \in DOMAIN s : s[i] = s[j] => i = j

\* Process p handles a TypingSignal.
HandlesTyping(p, c, q) ==
    /\ conn[c] = "open"
    /\ q[c] # <<>>
    /\ Head(q[c]).type = "typing_status"
    /\ q'[c] = Tail(q[c])

\* The typing set of p after the step is the one before it with the name
\* added or removed, without repetition, and p's log and dedup cache are
\* as before.
TypingApplied(p, data) ==
    /\ NoRepeat(typingUsers'[p])
    /\ Range(typingUsers'[p]) =
          IF data.isTyping
          THEN Range(typingUsers[p]) \cup {data.name}
          ELSE Range(typingUsers[p]) \ {data.name}
    /\ messages'[p] = messages[p]
    /\ messageIdsRef'[p] = messageIdsRef[p]

\* C33: a typing set never holds a name twice; handling an assertion adds
\* the name if it is absent and keeps the set of names if it is present,
\* handling a stop removes the name and keeps the set if it is absent, and
\* neither changes the log or the dedup cache.
C33_TypingSet ==
    /\ [](\A p \in Procs : NoRepeat(typingUsers[p]))
    /\ [][\A c \in Conns :
             /\ HandlesTyping(Host, c, toHost) => TypingApplied(Host, Head(toHost[c]))
             /\ HandlesTyping(c[1], c, toGuest) => TypingApplied(c[1], Head(toGuest[c]))]_vars

\* The host has handled two assertions of g1 in a row and a stop of an
\* absent name is behind the guest.
C33_Witness ==
    /\ typingUsers[Host] = <<"g1">>
    /\ Len(SelectSeq(toGuest[<<"g1", 1>>],
                     LAMBDA e : e.type = "typing_status" /\ e.name = "g1" /\ e.isTyping)) = 2

\* C32: a `typing' assertion a participant has sent is followed by a
\* `stopped' signal of that participant, also when the participant is muted
\* after the assertion.
C32_TypingStops ==
    \A p \in {Host, "g1"} : (typingSent[p] = "typing") ~> (typingSent[p] = "stopped")

\* The guest has been muted after its assertion, the host shows it as
\* typing, and the timer that will send the stop is armed.
C32_Witness ==
    /\ typingSent["g1"] = "typing"
    /\ currentUser["g1"].isMuted
    /\ typingTimeoutRef["g1"] # <<>>
    /\ typingUsers[Host] = <<"g1">>

\* C40: once the host has handled the departure of a participant, by a lost
\* connection or by an eviction, the participant is not in the host's
\* typing set, and once every envelope has been handled it is in no guest's
\* typing set.
C40_NoTypingAfterLeave ==
    \A g \in Guests :
       LeftNotices(messages[Host], g) # {} =>
          /\ g \notin Range(typingUsers[Host])
          /\ (\A c \in Conns : toGuest[c] = <<>> /\ toHost[c] = <<>>) =>
                \A o \in Guests \ {g} : g \notin Range(typingUsers[o])

====
